---------------------------- MODULE Spec2Model ----------------------------
(***************************************************************************)
(* Model of the Google Trends aggregation tool                             *)
(* AdvancedGoogleTrendsAnalyzer (src/tools/trends_tool.py): the            *)
(* orchestrating method _run with its provider calls, and the pure         *)
(* analysers it applies to the provider's tables.                          *)
(*                                                                         *)
(* Numbers.  pandas hands the analysers float64 values.  The provider's    *)
(* interest values are small non-negative integers, so every mean is a     *)
(* ratio of small integers; the model keeps such a value as the exact      *)
(* fraction [n, d] in lowest terms that the float64 is the rounding of.    *)
(* The comparisons of lines 249 and 251 (x > y * 1.1, x < y * 0.9), run in *)
(* float64 on every pair of means the series of this model produce, give   *)
(* the answers the fractions give.  The quotient of line 260 is rounded    *)
(* three times, and can come out just beside a value that is itself a      *)
(* float64: change_percentage is kept as [n, d, off], the exact quotient   *)
(* n/d and the side off (-1, 0, 1) on which float64 leaves the result when *)
(* n/d is a float64 (ChangeRounding).                                      *)
(*                                                                         *)
(* Time.  clock counts the units of time.sleep.  A call on the provider    *)
(* client is issued at the time clock shows and takes latency units, the   *)
(* same for every call of a run; time.sleep(1) takes 1 unit; everything    *)
(* else takes no time.  datetime.now() reads clock.                        *)
(***************************************************************************)
EXTENDS Integers, Sequences, FiniteSets, TLC

VARIABLES
    pc,                \* position of the run of _run (or of a function check)
    keywords,          \* argument keywords of _run: a str or a list
    include_related,   \* argument
    include_regional,  \* argument
    include_rising,    \* argument
    kw_list,           \* local kw_list
    analysis_result,   \* local analysis_result (the Report being built)
    kw_i,              \* index of the for-loop over kw_list (line 144)
    rel_step,          \* position inside one iteration: "topics" | "queries"
    calls,             \* history: the calls made on the provider client
    visited,           \* history: the stages entered, in order
    result,            \* what _run returned
    interest_df,       \* the time-series table an analyser is applied to
    trends,            \* the value _analyze_trend_direction returned
    peaks,             \* the value _find_peak_periods returned
    regional_df,       \* the regional table _get_top_regions is applied to
    top_regions,       \* the value _get_top_regions returned
    related_data,      \* the related table _process_related_data is applied to
    processed,         \* the value _process_related_data returned
    clock,             \* the time, in the units of time.sleep
    latency,           \* the time the provider takes over one call
    mock,              \* the answers of a mocked provider, if it is mocked
    first              \* what the first of two runs returned

vars == << pc, keywords, include_related, include_regional, include_rising,
           kw_list, analysis_result, kw_i, rel_step, calls, visited, result,
           interest_df, trends, peaks, regional_df, top_regions, related_data,
           processed, clock, latency, mock, first >>

----------------------------------------------------------------------------
(* Bounds of the model *)

\* longest keyword list given to a run that is followed through all stages
MaxKw == 2

\* longest series handed to _analyze_trend_direction
MaxPoints == 20

\* the keywords of the runs
Keywords == {"ai", "ml"}

\* all sequences over S of length 0..n
SeqsUpTo(S, n) == UNION {[1..m -> S] : m \in 0..n}

\* a time by which a run with a provider that answers at once has returned
Deadline == 8

\* the time of a slow call: the third call of a run of such calls is in
\* flight when Deadline has passed since the start of the run
SlowCall == Deadline \div 2

\* longest keyword list given to a run that is followed through its Init stage
MaxInputLen == 6

\* the keywords of those lists
InputKeywords == {"k1", "k2", "k3", "k4", "k5", "k6"}

\* values a point of a generated series takes
PointValues == {0, 8, 9, 10, 11, 12, 60}

\* values of the points strictly inside a generated series
FillValues == {0, 60}

\* number of points of the long series, whose windows hold three points
LongPoints == 30

\* the first three and the last three points of the long series
LongLeads == { << 4, 3, 3 >>, << 20, 25, 25 >> }

LongTrails == { << 3, 3, 3 >>, << 4, 4, 3 >>, << 4, 4, 4 >>, << 25, 26, 26 >> }

----------------------------------------------------------------------------
(* Python values *)

None == [py |-> "None"]

\* the empty dict {}
EmptyDict == [k \in {} |-> None]

Min(a, b) == IF a < b THEN a ELSE b

Max(a, b) == IF a > b THEN a ELSE b

Abs(a) == IF a < 0 THEN -a ELSE a

RECURSIVE GCD(_, _)
GCD(a, b) == IF b = 0 THEN a ELSE GCD(b, a % b)

\* the fraction n/d (d # 0) in lowest terms with a positive denominator
Frac(n, d) ==
    LET g == GCD(Abs(n), Abs(d))
        s == IF d < 0 THEN -1 ELSE 1
    IN  [n |-> (s * n) \div g, d |-> (s * d) \div g]

FracOfInt(i) == [n |-> i, d |-> 1]

FracAdd(x, y) == Frac(x.n * y.d + y.n * x.d, x.d * y.d)

FracSub(x, y) == Frac(x.n * y.d - y.n * x.d, x.d * y.d)

FracMul(x, y) == Frac(x.n * y.n, x.d * y.d)

\* x / y for y # 0
FracDiv(x, y) == Frac(x.n * y.d, x.d * y.n)

FracLess(x, y) == x.n * y.d < y.n * x.d

RECURSIVE SeqSum(_)
SeqSum(s) == IF s = << >> THEN 0 ELSE Head(s) + SeqSum(Tail(s))

\* pandas Series.head(n) and Series.tail(n), n >= 0
head(s, n) == SubSeq(s, 1, Min(n, Len(s)))

tail(s, n) == SubSeq(s, Len(s) - Min(n, Len(s)) + 1, Len(s))

\* pandas Series.mean() of a non-empty series of integers
mean(s) == Frac(SeqSum(s), Len(s))

\* number of rows of a table whose columns are series of one length
DataLength(df) ==
    IF DOMAIN df = {} THEN 0 ELSE Len(df[CHOOSE c \in DOMAIN df : TRUE])

----------------------------------------------------------------------------
(* _analyze_trend_direction, src/tools/trends_tool.py lines 239-262 *)

\* the float literals 1.1 and 0.9 and 100 of lines 249, 251, 260
RisingFactor == Frac(11, 10)

DecliningFactor == Frac(9, 10)

Hundred == FracOfInt(100)

\* lines 246-247: the size of the leading and of the trailing window
WindowSize(data_length) == Max(1, data_length \div 10)

\* line 260 in float64: the pairs start_avg, end_avg (as << n, d, n, d >>) of
\* the series of this model for which (end_avg - start_avg) / start_avg * 100
\* is a float64 in exact arithmetic, and the three roundings of the code leave
\* the result just above it, or just below it.  With start_avg = 10/3 and
\* end_avg = 3 the code gets -10.000000000000004, with 70/3 and 77/3 it gets
\* 10.00000000000001, with 10/3 and 11/3 it gets 9.999999999999991.
RoundedAbove ==
    { << 5, 1, 21, 2 >>, << 10, 1, 69, 2 >>, << 70, 3, 77, 3 >> }

RoundedBelow ==
    { << 10, 1, 9, 2 >>, << 10, 1, 71, 2 >>, << 10, 3, 3, 1 >>,
      << 10, 3, 4, 1 >>, << 10, 3, 11, 3 >> }

ChangeRounding(start_avg, end_avg) ==
    LET pair == << start_avg.n, start_avg.d, end_avg.n, end_avg.d >>
    IN  IF pair \in RoundedAbove THEN 1
        ELSE IF pair \in RoundedBelow THEN -1
        ELSE 0

\* the float64 that lies on the side off of the fraction x
Float64(x, off) == [n |-> x.n, d |-> x.d, off |-> off]

\* line 260
ChangePercentage(start_avg, end_avg) ==
    IF FracLess(FracOfInt(0), start_avg)
    THEN Float64(FracMul(FracDiv(FracSub(end_avg, start_avg), start_avg), Hundred),
                 ChangeRounding(start_avg, end_avg))
    ELSE Float64(FracOfInt(0), 0)

\* the mutants of TrendOfColumn: >= for > at line 249; the ratio of line 260
\* without its factor 100
TrendOfColumn_GeqRising(series, data_length) ==
    LET start_avg == mean(head(series, WindowSize(data_length)))
        end_avg == mean(tail(series, WindowSize(data_length)))
        direction ==
            IF ~FracLess(end_avg, FracMul(start_avg, RisingFactor)) THEN "Rising"
            ELSE IF FracLess(end_avg, FracMul(start_avg, DecliningFactor))
                 THEN "Declining"
            ELSE "Stable"
    IN  [direction |-> direction,
         start_average |-> start_avg,
         end_average |-> end_avg,
         change_percentage |-> ChangePercentage(start_avg, end_avg)]

TrendOfColumn_NoPercent(series, data_length) ==
    LET start_avg == mean(head(series, WindowSize(data_length)))
        end_avg == mean(tail(series, WindowSize(data_length)))
        direction ==
            IF FracLess(FracMul(start_avg, RisingFactor), end_avg) THEN "Rising"
            ELSE IF FracLess(end_avg, FracMul(start_avg, DecliningFactor))
                 THEN "Declining"
            ELSE "Stable"
    IN  [direction |-> direction,
         start_average |-> start_avg,
         end_average |-> end_avg,
         change_percentage |->
             IF FracLess(FracOfInt(0), start_avg)
             THEN Float64(FracDiv(FracSub(end_avg, start_avg), start_avg), 0)
             ELSE Float64(FracOfInt(0), 0)]

\* lines 245-261: the entry of one column
TrendOfColumn(series, data_length) ==
    LET start_avg == mean(head(series, WindowSize(data_length)))
        end_avg == mean(tail(series, WindowSize(data_length)))
        direction ==
            IF FracLess(FracMul(start_avg, RisingFactor), end_avg) THEN "Rising"
            ELSE IF FracLess(end_avg, FracMul(start_avg, DecliningFactor))
                 THEN "Declining"
            ELSE "Stable"
    IN  [direction |-> direction,
         start_average |-> start_avg,
         end_average |-> end_avg,
         change_percentage |-> ChangePercentage(start_avg, end_avg)]

_analyze_trend_direction(df) ==
    [column \in DOMAIN df \ {"isPartial"} |->
        TrendOfColumn(df[column], DataLength(df))]

----------------------------------------------------------------------------
(* _find_peak_periods, src/tools/trends_tool.py lines 226-237 *)

RECURSIVE SeqMax(_)
SeqMax(s) ==
    IF Len(s) = 1 THEN Head(s) ELSE Max(Head(s), SeqMax(Tail(s)))

\* a mutant of idxmax: the label of the last occurrence of the maximum
idxmax_Last(s) == CHOOSE i \in 1..Len(s) :
    /\ s[i] = SeqMax(s)
    /\ \A j \in (i + 1)..Len(s) : s[j] # SeqMax(s)

\* pandas Series.idxmax(): the label of the first occurrence of the maximum;
\* the label of row i (its date) is modelled by i
idxmax(s) == CHOOSE i \in 1..Len(s) :
    /\ s[i] = SeqMax(s)
    /\ \A j \in 1..(i - 1) : s[j] # SeqMax(s)

_find_peak_periods(df) ==
    [column \in DOMAIN df \ {"isPartial"} |->
        [peak_date |-> idxmax(df[column]),
         peak_value |-> FracOfInt(SeqMax(df[column]))]]

----------------------------------------------------------------------------
(* _process_related_data, src/tools/trends_tool.py lines 205-224 *)

\* line 212: data.head(10)
RelatedLimit == 10

\* a table of related rows is [rows |-> the sequence of its rows], a row a
\* record; the table is None when the provider gives none
RelatedRow(row) ==
    IF "topic_title" \in DOMAIN row
    THEN [title |-> row.topic_title, type |-> row.topic_type, value |-> row.value]
    ELSE [query |-> row.query, value |-> row.value]

\* a mutant of _process_related_data: without the head(10) of line 212
_process_related_data_NoLimit(data) ==
    IF data = None \/ Len(data.rows) = 0
    THEN << >>
    ELSE [i \in 1..Len(data.rows) |-> RelatedRow(data.rows[i])]

_process_related_data(data) ==
    IF data = None \/ Len(data.rows) = 0
    THEN << >>
    ELSE [i \in 1..Min(RelatedLimit, Len(data.rows)) |-> RelatedRow(data.rows[i])]

----------------------------------------------------------------------------
(* _get_top_regions, src/tools/trends_tool.py lines 264-274 *)

\* line 269: head(10)
RegionLimit == 10

\* A regional table: [index |-> the region names in provider order,
\*                    cols |-> column -> the values in that order].
\* sort_values(ascending=False) leaves the positions of a column descending
\* by value, equal values in index order.
\* k put into the positions p, which are in that order already: behind every
\* position whose value is at least the value of k
RECURSIVE InsertPosition(_, _, _)
InsertPosition(values, p, k) ==
    IF p = << >> THEN << k >>
    ELSE IF values[Head(p)] >= values[k]
    THEN << Head(p) >> \o InsertPosition(values, Tail(p), k)
    ELSE << k >> \o p

\* the positions 1..n in that order
RECURSIVE SortFirst(_, _)
SortFirst(values, n) ==
    IF n = 0 THEN << >>
    ELSE InsertPosition(values, SortFirst(values, n - 1), n)

\* line 269: sort_values(ascending=False)
SortedPositions(values) == SortFirst(values, Len(values))

\* line 272: the entries of s with a value > 0, in the order of s
RECURSIVE PositiveEntries(_)
PositiveEntries(s) ==
    IF s = << >> THEN << >>
    ELSE IF Head(s).interest > 0 THEN << Head(s) >> \o PositiveEntries(Tail(s))
    ELSE PositiveEntries(Tail(s))

\* a mutant of TopRegionsOfColumn: the column is not sorted at line 269
TopRegionsOfColumn_Unsorted(index, values) ==
    LET top_10 == [i \in 1..Min(RegionLimit, Len(values)) |->
                      [region |-> index[i], interest |-> values[i]]]
    IN  PositiveEntries(top_10)

TopRegionsOfColumn(index, values) ==
    LET p == SortedPositions(values)
        top_10 == [i \in 1..Min(RegionLimit, Len(values)) |->
                      [region |-> index[p[i]], interest |-> values[p[i]]]]
    IN  PositiveEntries(top_10)

_get_top_regions(df) ==
    [column \in DOMAIN df.cols |-> TopRegionsOfColumn(df.index, df.cols[column])]

\* regional_df.to_dict('index'): region -> column -> value
ToDictIndex(df) ==
    [region \in {df.index[i] : i \in 1..Len(df.index)} |->
        [column \in DOMAIN df.cols |->
            df.cols[column][CHOOSE i \in 1..Len(df.index) : df.index[i] = region]]]

\* interest_df.to_dict('records'): one dict per row
ToDictRecords(df) ==
    [i \in 1..DataLength(df) |-> [column \in DOMAIN df |-> df[column][i]]]

----------------------------------------------------------------------------
(* _generate_summary, src/tools/trends_tool.py lines 276-319 *)

\* str.lower() on the directions the code produces and on 'unknown'
Lower(str) ==
    CASE str = "Rising" -> "rising"
      [] str = "Declining" -> "declining"
      [] str = "Stable" -> "stable"
      [] OTHER -> str

\* f"{x:.1f}" for x >= 0: x rounded to tenths (ties to even), as a number of
\* tenths
Format1f(x) ==
    LET q == (10 * x.n) \div x.d
        r == (10 * x.n) % x.d
    IN  IF 2 * r > x.d \/ (2 * r = x.d /\ q % 2 = 1) THEN q + 1 ELSE q

\* dict.get(key, default)
Get(dict, key, default) == IF key \in DOMAIN dict THEN dict[key] ELSE default

\* a mutant of InterestInsights: the direction is not lower-cased at line 295
RECURSIVE InterestInsights_NoLower(_, _)
InterestInsights_NoLower(interest_data, kws) ==
    IF kws = << >> THEN << >>
    ELSE LET keyword == Head(kws)
             averages == Get(interest_data, "average_interest", EmptyDict)
             trend_info == Get(Get(interest_data, "trend_direction", EmptyDict),
                               keyword, EmptyDict)
         IN  (IF keyword \in DOMAIN averages
              THEN << [kind |-> "interest",
                       keyword |-> keyword,
                       average |-> Format1f(averages[keyword]),
                       trend |-> Get(trend_info, "direction", "unknown")] >>
              ELSE << >>)
             \o InterestInsights_NoLower(interest_data, Tail(kws))

\* lines 288-296: the insight lines of keywords[i..], one per keyword that
\* has an average
RECURSIVE InterestInsights(_, _)
InterestInsights(interest_data, kws) ==
    IF kws = << >> THEN << >>
    ELSE LET keyword == Head(kws)
             averages == Get(interest_data, "average_interest", EmptyDict)
             trend_info == Get(Get(interest_data, "trend_direction", EmptyDict),
                               keyword, EmptyDict)
         IN  (IF keyword \in DOMAIN averages
              THEN << [kind |-> "interest",
                       keyword |-> keyword,
                       average |-> Format1f(averages[keyword]),
                       trend |-> Lower(Get(trend_info, "direction", "unknown"))] >>
              ELSE << >>)
             \o InterestInsights(interest_data, Tail(kws))

CompareRecommendation == "Consider comparing with related keywords for better insights"

RegionalRecommendation == "Try regional analysis to understand geographic patterns"

\* bool(d) of a dict
Truthy(dict) == DOMAIN dict # {}

\* a mutant of _generate_summary: the regional block of lines 299-302 comes
\* before the time-series block of lines 285-296
_generate_summary_RegionalFirst(ar, kws) ==
    [key_insights |->
        (IF Truthy(ar.regional_interest)
         THEN << [kind |-> "regional",
                  countries |-> Cardinality(DOMAIN
                      Get(ar.regional_interest, "by_country", EmptyDict))] >>
         ELSE << >>)
        \o
        (IF Truthy(ar.interest_over_time)
         THEN InterestInsights(ar.interest_over_time, kws)
         ELSE << >>),
     recommendations |->
        (IF Len(kws) = 1 THEN << CompareRecommendation >> ELSE << >>)
        \o
        (IF ~Truthy(ar.regional_interest)
         THEN << RegionalRecommendation >> ELSE << >>),
     data_quality |->
        [has_time_series |-> Truthy(ar.interest_over_time),
         has_related_data |-> Truthy(ar.related_topics) \/ Truthy(ar.related_queries),
         has_regional_data |-> Truthy(ar.regional_interest),
         keywords_analyzed |-> Len(kws)]]

\* a mutant of _generate_summary: `and` for the `or` of line 307
_generate_summary_RelatedAnd(ar, kws) ==
    [key_insights |->
        (IF Truthy(ar.interest_over_time)
         THEN InterestInsights(ar.interest_over_time, kws)
         ELSE << >>)
        \o
        (IF Truthy(ar.regional_interest)
         THEN << [kind |-> "regional",
                  countries |-> Cardinality(DOMAIN
                      Get(ar.regional_interest, "by_country", EmptyDict))] >>
         ELSE << >>),
     recommendations |->
        (IF Len(kws) = 1 THEN << CompareRecommendation >> ELSE << >>)
        \o
        (IF ~Truthy(ar.regional_interest)
         THEN << RegionalRecommendation >> ELSE << >>),
     data_quality |->
        [has_time_series |-> Truthy(ar.interest_over_time),
         has_related_data |-> Truthy(ar.related_topics) /\ Truthy(ar.related_queries),
         has_regional_data |-> Truthy(ar.regional_interest),
         keywords_analyzed |-> Len(kws)]]

\* a mutant of _generate_summary: `elif` for the `if` of line 316
_generate_summary_ElseRegional(ar, kws) ==
    [key_insights |->
        (IF Truthy(ar.interest_over_time)
         THEN InterestInsights(ar.interest_over_time, kws)
         ELSE << >>)
        \o
        (IF Truthy(ar.regional_interest)
         THEN << [kind |-> "regional",
                  countries |-> Cardinality(DOMAIN
                      Get(ar.regional_interest, "by_country", EmptyDict))] >>
         ELSE << >>),
     recommendations |->
        IF Len(kws) = 1 THEN << CompareRecommendation >>
        ELSE IF ~Truthy(ar.regional_interest) THEN << RegionalRecommendation >>
        ELSE << >>,
     data_quality |->
        [has_time_series |-> Truthy(ar.interest_over_time),
         has_related_data |-> Truthy(ar.related_topics) \/ Truthy(ar.related_queries),
         has_regional_data |-> Truthy(ar.regional_interest),
         keywords_analyzed |-> Len(kws)]]

_generate_summary(ar, kws) ==
    [key_insights |->
        (IF Truthy(ar.interest_over_time)
         THEN InterestInsights(ar.interest_over_time, kws)
         ELSE << >>)
        \o
        (IF Truthy(ar.regional_interest)
         THEN << [kind |-> "regional",
                  countries |-> Cardinality(DOMAIN
                      Get(ar.regional_interest, "by_country", EmptyDict))] >>
         ELSE << >>),
     recommendations |->
        (IF Len(kws) = 1 THEN << CompareRecommendation >> ELSE << >>)
        \o
        (IF ~Truthy(ar.regional_interest)
         THEN << RegionalRecommendation >> ELSE << >>),
     data_quality |->
        [has_time_series |-> Truthy(ar.interest_over_time),
         has_related_data |-> Truthy(ar.related_topics) \/ Truthy(ar.related_queries),
         has_regional_data |-> Truthy(ar.regional_interest),
         keywords_analyzed |-> Len(kws)]]

----------------------------------------------------------------------------
(* What the provider client may answer.  Every call either raises or        *)
(* returns one of a few tables.                                             *)

Raise == [raise |-> TRUE]

Returns(val) == [raise |-> FALSE, val |-> val]

KwSet(kws) == {kws[i] : i \in 1..Len(kws)}

\* the series a returned time-series table holds, one column per keyword
SeriesPool == { << 10, 60 >>, << 0, 0 >> }

\* interest_over_time(): a table without rows, or one column per keyword of
\* the payload plus the isPartial column
InterestTables(kws) ==
    {[column \in kws |-> << >>]}
    \cup (IF kws = {} THEN {}
          ELSE {[column \in kws \cup {"isPartial"} |->
                   IF column = "isPartial" THEN [i \in 1..Len(s) |-> FALSE] ELSE s]
                : s \in SeriesPool}
               \cup {[column \in kws |-> s] : s \in SeriesPool})

TopicRows ==
    << [topic_title |-> "Machine learning", topic_type |-> "Field of study",
        value |-> 100],
       [topic_title |-> "Robot", topic_type |-> "Topic", value |-> 50] >>

QueryRows ==
    << [query |-> "what is ai", value |-> 100],
       [query |-> "ai news", value |-> 70] >>

\* the value related_topics() / related_queries() hold for one keyword
TopicValues == { [top |-> [rows |-> TopicRows], rising |-> None] }

QueryValues == { [top |-> [rows |-> << >>], rising |-> [rows |-> QueryRows]] }

\* related_topics() / related_queries() as far as the iteration of keyword
\* reads it: the keyword is missing, maps to None, or maps to its tables
RelatedResponses(keyword, values) ==
    {Raise}
    \cup {Returns(EmptyDict), Returns([k \in {keyword} |-> None])}
    \cup {Returns([k \in {keyword} |-> v]) : v \in values}

\* interest_by_region(): [index |-> regions, cols |-> column -> values]
RegionalTables(kws) ==
    { [index |-> << >>, cols |-> [column \in kws |-> << >>]] }
    \cup (IF kws = {} THEN {}
          ELSE {[index |-> << "US", "GB", "DE" >>,
                 cols |-> [column \in kws |-> << 50, 100, 0 >>]]})

\* the time a call on the provider takes: none, or that of a slow call
Latencies == {0, SlowCall}

\* trending_searches(): a table whose column 0 is a list of strings
TrendingTables ==
    { [rows |-> << >>],
      [rows |-> << "t01", "t02", "t03", "t04", "t05", "t06",
                   "t07", "t08", "t09", "t10", "t11" >>] }

----------------------------------------------------------------------------
(* _run, src/tools/trends_tool.py lines 62-203 *)

\* line 96: keywords[:5]
KeywordLimit == 5

\* line 188: head(10)
TrendingLimit == 10

\* the arguments the runs leave at their defaults (lines 64-67)
timeframe == "today 12-m"

geo == ""

category == 0

gprop == ""

\* a mutant of NormalizeKeywords: the list is not cut at line 96
NormalizeKeywords_NoSlice(kws) ==
    IF kws.kind = "str" THEN << kws.str >> ELSE kws.list

\* lines 92-96
NormalizeKeywords(kws) ==
    IF kws.kind = "str" THEN << kws.str >> ELSE head(kws.list, KeywordLimit)

\* datetime.now() when the calls of the step have returned
now == clock'

\* lines 107-122
InitialResult(kwl) ==
    [query_info |->
        [keywords |-> kwl,
         timeframe |-> timeframe,
         geo |-> IF geo # "" THEN geo ELSE "Worldwide",
         category |-> category,
         google_property |-> IF gprop # "" THEN gprop ELSE "Web Search",
         analysis_date |-> now],
     interest_over_time |-> EmptyDict,
     related_topics |-> EmptyDict,
     related_queries |-> EmptyDict,
     regional_interest |-> EmptyDict,
     rising_searches |-> EmptyDict,
     summary |-> EmptyDict]

\* lines 198-203
ErrorResult(kws) ==
    [kind |-> "error", error |-> "Analysis failed", keywords |-> kws,
     timestamp |-> now]

\* DataFrame.empty
DfEmpty(df) == DataLength(df) = 0

\* DataFrame.drop(col, axis=1)
Drop(df, col) == [column \in DOMAIN df \ {col} |-> df[column]]

\* dict[key] = val
Put(dict, key, val) ==
    [k \in DOMAIN dict \cup {key} |-> IF k = key THEN val ELSE dict[k]]

\* lines 129-137
InterestSection(df) ==
    LET interest == IF "isPartial" \in DOMAIN df THEN Drop(df, "isPartial") ELSE df
    IN  [data |-> ToDictRecords(interest),
         peak_periods |-> _find_peak_periods(interest),
         trend_direction |-> _analyze_trend_direction(interest),
         average_interest |-> [column \in DOMAIN interest |-> mean(interest[column])]]

\* lines 149-152 and 159-162
RelatedEntry(tables) ==
    [top |-> _process_related_data(Get(tables, "top", None)),
     rising |-> _process_related_data(Get(tables, "rising", None))]

\* lines 174-177
RegionalSection(df) ==
    [by_country |-> ToDictIndex(df), top_regions |-> _get_top_regions(df)]

\* lines 138, 154, 164, 178: time.sleep(1)
SleepTime == 1

\* a call on the provider client: what was called, how it ended, and when it
\* was issued
Call(op, args, res) == [op |-> op, args |-> args, res |-> res, at |-> clock]

\* the time a fetch takes that is followed by a sleep: the call, and the
\* sleep unless the call raised
FetchTime(resp) == latency + (IF resp.raise THEN 0 ELSE SleepTime)

NoMock == [kind |-> "none"]

\* what a call of op may answer: anything of pool, or what the mock holds
Answers(op, pool) == IF mock = NoMock THEN pool ELSE {mock[op]}

AnswersFor(op, keyword, pool) ==
    IF mock = NoMock THEN pool ELSE {mock[op][keyword]}

Goto(stage) == pc' = stage /\ visited' = Append(visited, stage)

\* where the run goes after the time series, after the loop over the
\* keywords, and after the regional block (lines 143, 170, 183)
\* a mutant of AfterRegional: without the test of include_rising of line 183
AfterRegional_Always == "FetchingTrendingNow"

AfterRegional == IF include_rising THEN "FetchingTrendingNow" ELSE "Synthesizing"

AfterRelated == IF include_regional THEN "FetchingRegional" ELSE AfterRegional

AfterSeries ==
    IF include_related /\ Len(kw_list) > 0 THEN "FetchingRelated" ELSE AfterRelated

\* the variables of the function checks, which a run leaves alone
UNCHANGED_fn ==
    UNCHANGED << interest_df, trends, peaks, regional_df, top_regions, related_data,
                 processed >>

UNCHANGED_args ==
    UNCHANGED << keywords, include_related, include_regional, include_rising,
                 latency, mock, first >>

\* a mutant of Abort: the handler of the outer try raises again
Abort_Reraise(kws) ==
    /\ Goto("Escaped")
    /\ UNCHANGED result

\* lines 198-203: the handler of the outer try
Abort(kws) ==
    /\ Goto("Aborted")
    /\ result' = ErrorResult(kws)

\* line 89: TrendReq(...); kw_list is not yet a local when it raises
CreateClient ==
    /\ pc = "Init"
    /\ clock' = clock + latency
    /\ \E ok \in BOOLEAN :
          /\ calls' = Append(calls, Call("TrendReq", << >>, IF ok THEN "ok" ELSE "raise"))
          /\ IF ok
             THEN pc' = "BuildPayload" /\ UNCHANGED << visited, result >>
             ELSE Abort(keywords)
    /\ UNCHANGED << kw_list, analysis_result, kw_i, rel_step >>
    /\ UNCHANGED_args /\ UNCHANGED_fn

\* lines 92-122: kw_list, build_payload(...), the empty analysis_result
BuildPayload ==
    /\ pc = "BuildPayload"
    /\ clock' = clock + latency
    /\ kw_list' = NormalizeKeywords(keywords)
    /\ \E ok \in BOOLEAN :
          /\ calls' = Append(calls,
                 Call("build_payload", kw_list', IF ok THEN "ok" ELSE "raise"))
          /\ IF ok
             THEN /\ analysis_result' = InitialResult(kw_list')
                  /\ Goto("FetchingSeries")
                  /\ UNCHANGED result
             ELSE /\ Abort(kw_list')
                  /\ UNCHANGED analysis_result
    /\ UNCHANGED << kw_i, rel_step >>
    /\ UNCHANGED_args /\ UNCHANGED_fn

\* a mutant of FetchInterestOverTime: without the try of line 125, so that
\* the exception reaches the handler of line 197
FetchInterestOverTime_NoTry ==
    /\ pc = "FetchingSeries"
    /\ \E resp \in Answers("interest_over_time",
                {Raise} \cup {Returns(df) : df \in InterestTables(KwSet(kw_list))}) :
          /\ clock' = clock + FetchTime(resp)
          /\ IF resp.raise
             THEN /\ calls' = Append(calls, Call("interest_over_time", << >>, "raise"))
                  /\ UNCHANGED analysis_result
                  /\ Goto("Aborted")
                  /\ result' = ErrorResult(kw_list)
             ELSE /\ IF DfEmpty(resp.val)
                     THEN /\ calls' = Append(calls, Call("interest_over_time", << >>, "empty"))
                          /\ UNCHANGED analysis_result
                     ELSE /\ calls' = Append(calls, Call("interest_over_time", << >>, "data"))
                          /\ analysis_result' =
                                [analysis_result EXCEPT
                                    !.interest_over_time = InterestSection(resp.val)]
                  /\ Goto(AfterSeries)
                  /\ UNCHANGED result
    /\ UNCHANGED << kw_list, kw_i, rel_step >>
    /\ UNCHANGED_args /\ UNCHANGED_fn

\* a mutant of FetchInterestOverTime: without the test of line 127, an empty
\* table is reported with averages of 0
FetchInterestOverTime_ZeroAverage ==
    /\ pc = "FetchingSeries"
    /\ \E resp \in Answers("interest_over_time",
                {Raise} \cup {Returns(df) : df \in InterestTables(KwSet(kw_list))}) :
          /\ clock' = clock + FetchTime(resp)
          /\ IF resp.raise
             THEN /\ calls' = Append(calls, Call("interest_over_time", << >>, "raise"))
                  /\ UNCHANGED analysis_result
             ELSE IF DfEmpty(resp.val)
             THEN /\ calls' = Append(calls, Call("interest_over_time", << >>, "empty"))
                  /\ analysis_result' =
                        [analysis_result EXCEPT !.interest_over_time =
                            [data |-> << >>,
                             peak_periods |-> EmptyDict,
                             trend_direction |-> EmptyDict,
                             average_interest |->
                                 [column \in DOMAIN resp.val |-> FracOfInt(0)]]]
             ELSE /\ calls' = Append(calls, Call("interest_over_time", << >>, "data"))
                  /\ analysis_result' =
                        [analysis_result EXCEPT
                            !.interest_over_time = InterestSection(resp.val)]
    /\ Goto(AfterSeries)
    /\ UNCHANGED << kw_list, kw_i, rel_step, result >>
    /\ UNCHANGED_args /\ UNCHANGED_fn

\* a mutant of FetchInterestOverTime: the handler of line 139 records the
\* failure in the section
FetchInterestOverTime_ErrorMarker ==
    /\ pc = "FetchingSeries"
    /\ \E resp \in Answers("interest_over_time",
                {Raise} \cup {Returns(df) : df \in InterestTables(KwSet(kw_list))}) :
          /\ clock' = clock + FetchTime(resp)
          /\ IF resp.raise
             THEN /\ calls' = Append(calls, Call("interest_over_time", << >>, "raise"))
                  /\ analysis_result' =
                        [analysis_result EXCEPT !.interest_over_time =
                            [error |-> "Could not retrieve interest over time"]]
             ELSE IF DfEmpty(resp.val)
             THEN /\ calls' = Append(calls, Call("interest_over_time", << >>, "empty"))
                  /\ UNCHANGED analysis_result
             ELSE /\ calls' = Append(calls, Call("interest_over_time", << >>, "data"))
                  /\ analysis_result' =
                        [analysis_result EXCEPT
                            !.interest_over_time = InterestSection(resp.val)]
    /\ Goto(AfterSeries)
    /\ UNCHANGED << kw_list, kw_i, rel_step, result >>
    /\ UNCHANGED_args /\ UNCHANGED_fn

\* lines 124-140
FetchInterestOverTime ==
    /\ pc = "FetchingSeries"
    /\ \E resp \in Answers("interest_over_time",
                {Raise} \cup {Returns(df) : df \in InterestTables(KwSet(kw_list))}) :
          /\ clock' = clock + FetchTime(resp)
          /\ IF resp.raise
             THEN /\ calls' = Append(calls, Call("interest_over_time", << >>, "raise"))
                  /\ UNCHANGED analysis_result
             ELSE IF DfEmpty(resp.val)
             THEN /\ calls' = Append(calls, Call("interest_over_time", << >>, "empty"))
                  /\ UNCHANGED analysis_result
             ELSE /\ calls' = Append(calls, Call("interest_over_time", << >>, "data"))
                  /\ analysis_result' =
                        [analysis_result EXCEPT
                            !.interest_over_time = InterestSection(resp.val)]
    /\ Goto(AfterSeries)
    /\ UNCHANGED << kw_list, kw_i, rel_step, result >>
    /\ UNCHANGED_args /\ UNCHANGED_fn

\* the end of one iteration of the loop of line 144
NextKeyword ==
    /\ kw_i' = kw_i + 1
    /\ rel_step' = "topics"
    /\ IF kw_i < Len(kw_list)
       THEN UNCHANGED << pc, visited >>
       ELSE Goto(AfterRelated)

\* a mutant of FetchRelatedTopics: a keyword the response does not hold gets
\* an entry of two empty lists
FetchRelatedTopics_EmptyEntry ==
    /\ pc = "FetchingRelated"
    /\ rel_step = "topics"
    /\ LET keyword == kw_list[kw_i]
       IN  \E resp \in AnswersFor("related_topics", keyword,
                                   RelatedResponses(keyword, TopicValues)) :
              /\ clock' = clock + FetchTime(resp)
              /\ IF resp.raise
                 THEN /\ calls' = Append(calls, Call("related_topics", << keyword >>, "raise"))
                      /\ UNCHANGED analysis_result
                      /\ NextKeyword
                 ELSE /\ IF keyword \in DOMAIN resp.val /\ resp.val[keyword] # None
                         THEN /\ calls' = Append(calls,
                                     Call("related_topics", << keyword >>, "data"))
                              /\ analysis_result' =
                                    [analysis_result EXCEPT !.related_topics =
                                        Put(@, keyword, RelatedEntry(resp.val[keyword]))]
                         ELSE /\ calls' = Append(calls,
                                     Call("related_topics", << keyword >>, "empty"))
                              /\ analysis_result' =
                                    [analysis_result EXCEPT !.related_topics =
                                        Put(@, keyword, RelatedEntry(EmptyDict))]
                      /\ rel_step' = "queries"
                      /\ UNCHANGED << pc, visited, kw_i >>
    /\ UNCHANGED << kw_list, result >>
    /\ UNCHANGED_args /\ UNCHANGED_fn

\* a mutant of FetchRelatedTopics: the topics fetch has a try of its own, so
\* that the queries fetch follows it also when it raised
FetchRelatedTopics_OwnTry ==
    /\ pc = "FetchingRelated"
    /\ rel_step = "topics"
    /\ LET keyword == kw_list[kw_i]
       IN  \E resp \in AnswersFor("related_topics", keyword,
                                   RelatedResponses(keyword, TopicValues)) :
              /\ clock' = clock + FetchTime(resp)
              /\ IF resp.raise
                 THEN /\ calls' = Append(calls, Call("related_topics", << keyword >>, "raise"))
                      /\ UNCHANGED analysis_result
                 ELSE IF keyword \in DOMAIN resp.val /\ resp.val[keyword] # None
                 THEN /\ calls' = Append(calls,
                             Call("related_topics", << keyword >>, "data"))
                      /\ analysis_result' =
                            [analysis_result EXCEPT !.related_topics =
                                Put(@, keyword, RelatedEntry(resp.val[keyword]))]
                 ELSE /\ calls' = Append(calls,
                             Call("related_topics", << keyword >>, "empty"))
                      /\ UNCHANGED analysis_result
              /\ rel_step' = "queries"
              /\ UNCHANGED << pc, visited, kw_i >>
    /\ UNCHANGED << kw_list, result >>
    /\ UNCHANGED_args /\ UNCHANGED_fn

\* a mutant of FetchRelatedTopics: the handler of line 166 empties the two
\* related sections
FetchRelatedTopics_ClearsEntries ==
    /\ pc = "FetchingRelated"
    /\ rel_step = "topics"
    /\ LET keyword == kw_list[kw_i]
       IN  \E resp \in AnswersFor("related_topics", keyword,
                                   RelatedResponses(keyword, TopicValues)) :
              /\ clock' = clock + FetchTime(resp)
              /\ IF resp.raise
                 THEN /\ calls' = Append(calls, Call("related_topics", << keyword >>, "raise"))
                      /\ analysis_result' =
                            [analysis_result EXCEPT !.related_topics = EmptyDict,
                                                    !.related_queries = EmptyDict]
                      /\ NextKeyword
                 ELSE /\ IF keyword \in DOMAIN resp.val /\ resp.val[keyword] # None
                         THEN /\ calls' = Append(calls,
                                     Call("related_topics", << keyword >>, "data"))
                              /\ analysis_result' =
                                    [analysis_result EXCEPT !.related_topics =
                                        Put(@, keyword, RelatedEntry(resp.val[keyword]))]
                         ELSE /\ calls' = Append(calls,
                                     Call("related_topics", << keyword >>, "empty"))
                              /\ UNCHANGED analysis_result
                      /\ rel_step' = "queries"
                      /\ UNCHANGED << pc, visited, kw_i >>
    /\ UNCHANGED << kw_list, result >>
    /\ UNCHANGED_args /\ UNCHANGED_fn

\* lines 145-154, and 166-167 when the call raises
FetchRelatedTopics ==
    /\ pc = "FetchingRelated"
    /\ rel_step = "topics"
    /\ LET keyword == kw_list[kw_i]
       IN  \E resp \in AnswersFor("related_topics", keyword,
                                   RelatedResponses(keyword, TopicValues)) :
              /\ clock' = clock + FetchTime(resp)
              /\ IF resp.raise
                 THEN /\ calls' = Append(calls, Call("related_topics", << keyword >>, "raise"))
                      /\ UNCHANGED analysis_result
                      /\ NextKeyword
                 ELSE /\ IF keyword \in DOMAIN resp.val /\ resp.val[keyword] # None
                         THEN /\ calls' = Append(calls,
                                     Call("related_topics", << keyword >>, "data"))
                              /\ analysis_result' =
                                    [analysis_result EXCEPT !.related_topics =
                                        Put(@, keyword, RelatedEntry(resp.val[keyword]))]
                         ELSE /\ calls' = Append(calls,
                                     Call("related_topics", << keyword >>, "empty"))
                              /\ UNCHANGED analysis_result
                      /\ rel_step' = "queries"
                      /\ UNCHANGED << pc, visited, kw_i >>
    /\ UNCHANGED << kw_list, result >>
    /\ UNCHANGED_args /\ UNCHANGED_fn

\* a mutant of FetchRelatedQueries: the handler of line 166 records the
\* failure in the keyword's entry
FetchRelatedQueries_ErrorMarker ==
    /\ pc = "FetchingRelated"
    /\ rel_step = "queries"
    /\ LET keyword == kw_list[kw_i]
       IN  \E resp \in AnswersFor("related_queries", keyword,
                                   RelatedResponses(keyword, QueryValues)) :
              /\ clock' = clock + FetchTime(resp)
              /\ IF resp.raise
                 THEN /\ calls' = Append(calls, Call("related_queries", << keyword >>, "raise"))
                      /\ analysis_result' =
                            [analysis_result EXCEPT !.related_queries =
                                Put(@, keyword, [error |-> "Could not retrieve related data"])]
                 ELSE IF keyword \in DOMAIN resp.val /\ resp.val[keyword] # None
                 THEN /\ calls' = Append(calls, Call("related_queries", << keyword >>, "data"))
                      /\ analysis_result' =
                            [analysis_result EXCEPT !.related_queries =
                                Put(@, keyword, RelatedEntry(resp.val[keyword]))]
                 ELSE /\ calls' = Append(calls, Call("related_queries", << keyword >>, "empty"))
                      /\ UNCHANGED analysis_result
    /\ NextKeyword
    /\ UNCHANGED << kw_list, result >>
    /\ UNCHANGED_args /\ UNCHANGED_fn

\* a mutant of FetchRelatedQueries: the try of line 145 encloses the loop, so
\* that an exception ends the loop
FetchRelatedQueries_EndsLoop ==
    /\ pc = "FetchingRelated"
    /\ rel_step = "queries"
    /\ LET keyword == kw_list[kw_i]
       IN  \E resp \in AnswersFor("related_queries", keyword,
                                   RelatedResponses(keyword, QueryValues)) :
              /\ clock' = clock + FetchTime(resp)
              /\ IF resp.raise
                 THEN /\ calls' = Append(calls, Call("related_queries", << keyword >>, "raise"))
                      /\ analysis_result' =
                            [analysis_result EXCEPT !.related_queries = EmptyDict]
                      /\ kw_i' = Len(kw_list) + 1
                      /\ rel_step' = "topics"
                      /\ Goto(AfterRelated)
                 ELSE /\ IF keyword \in DOMAIN resp.val /\ resp.val[keyword] # None
                         THEN /\ calls' = Append(calls,
                                     Call("related_queries", << keyword >>, "data"))
                              /\ analysis_result' =
                                    [analysis_result EXCEPT !.related_queries =
                                        Put(@, keyword, RelatedEntry(resp.val[keyword]))]
                         ELSE /\ calls' = Append(calls,
                                     Call("related_queries", << keyword >>, "empty"))
                              /\ UNCHANGED analysis_result
                      /\ NextKeyword
    /\ UNCHANGED << kw_list, result >>
    /\ UNCHANGED_args /\ UNCHANGED_fn

\* lines 156-167
FetchRelatedQueries ==
    /\ pc = "FetchingRelated"
    /\ rel_step = "queries"
    /\ LET keyword == kw_list[kw_i]
       IN  \E resp \in AnswersFor("related_queries", keyword,
                                   RelatedResponses(keyword, QueryValues)) :
              /\ clock' = clock + FetchTime(resp)
              /\ IF resp.raise
                 THEN /\ calls' = Append(calls, Call("related_queries", << keyword >>, "raise"))
                      /\ UNCHANGED analysis_result
                 ELSE IF keyword \in DOMAIN resp.val /\ resp.val[keyword] # None
                 THEN /\ calls' = Append(calls, Call("related_queries", << keyword >>, "data"))
                      /\ analysis_result' =
                            [analysis_result EXCEPT !.related_queries =
                                Put(@, keyword, RelatedEntry(resp.val[keyword]))]
                 ELSE /\ calls' = Append(calls, Call("related_queries", << keyword >>, "empty"))
                      /\ UNCHANGED analysis_result
    /\ NextKeyword
    /\ UNCHANGED << kw_list, result >>
    /\ UNCHANGED_args /\ UNCHANGED_fn

\* a mutant of FetchRegional: the handler of line 179 records the failure in
\* the section
FetchRegional_ErrorMarker ==
    /\ pc = "FetchingRegional"
    /\ \E resp \in Answers("interest_by_region",
                {Raise} \cup {Returns(df) : df \in RegionalTables(KwSet(kw_list))}) :
          /\ clock' = clock + FetchTime(resp)
          /\ IF resp.raise
             THEN /\ calls' = Append(calls, Call("interest_by_region", << >>, "raise"))
                  /\ analysis_result' =
                        [analysis_result EXCEPT !.regional_interest =
                            [error |-> "Could not retrieve regional interest"]]
             ELSE IF Len(resp.val.index) = 0
             THEN /\ calls' = Append(calls, Call("interest_by_region", << >>, "empty"))
                  /\ UNCHANGED analysis_result
             ELSE /\ calls' = Append(calls, Call("interest_by_region", << >>, "data"))
                  /\ analysis_result' =
                        [analysis_result EXCEPT
                            !.regional_interest = RegionalSection(resp.val)]
    /\ Goto(AfterRegional)
    /\ UNCHANGED << kw_list, kw_i, rel_step, result >>
    /\ UNCHANGED_args /\ UNCHANGED_fn

\* a mutant of FetchRegional: a failed fetch is tried again
FetchRegional_Reenter ==
    /\ pc = "FetchingRegional"
    /\ \E resp \in Answers("interest_by_region",
                {Raise} \cup {Returns(df) : df \in RegionalTables(KwSet(kw_list))}) :
          /\ clock' = clock + FetchTime(resp)
          /\ IF resp.raise
             THEN /\ calls' = Append(calls, Call("interest_by_region", << >>, "raise"))
                  /\ UNCHANGED analysis_result
                  /\ Goto("FetchingRegional")
             ELSE /\ IF Len(resp.val.index) = 0
                     THEN /\ calls' = Append(calls, Call("interest_by_region", << >>, "empty"))
                          /\ UNCHANGED analysis_result
                     ELSE /\ calls' = Append(calls, Call("interest_by_region", << >>, "data"))
                          /\ analysis_result' =
                                [analysis_result EXCEPT
                                    !.regional_interest = RegionalSection(resp.val)]
                  /\ Goto(AfterRegional)
    /\ UNCHANGED << kw_list, kw_i, rel_step, result >>
    /\ UNCHANGED_args /\ UNCHANGED_fn

\* lines 169-180
FetchRegional ==
    /\ pc = "FetchingRegional"
    /\ \E resp \in Answers("interest_by_region",
                {Raise} \cup {Returns(df) : df \in RegionalTables(KwSet(kw_list))}) :
          /\ clock' = clock + FetchTime(resp)
          /\ IF resp.raise
             THEN /\ calls' = Append(calls, Call("interest_by_region", << >>, "raise"))
                  /\ UNCHANGED analysis_result
             ELSE IF Len(resp.val.index) = 0
             THEN /\ calls' = Append(calls, Call("interest_by_region", << >>, "empty"))
                  /\ UNCHANGED analysis_result
             ELSE /\ calls' = Append(calls, Call("interest_by_region", << >>, "data"))
                  /\ analysis_result' =
                        [analysis_result EXCEPT
                            !.regional_interest = RegionalSection(resp.val)]
    /\ Goto(AfterRegional)
    /\ UNCHANGED << kw_list, kw_i, rel_step, result >>
    /\ UNCHANGED_args /\ UNCHANGED_fn

\* a mutant of FetchTrending: a call still in flight at Deadline is given up
\* and its section marked
FetchTrending_Abandoned ==
    /\ pc = "FetchingTrendingNow"
    /\ clock' = IF clock + latency - calls[1].at > Deadline
                 THEN clock ELSE clock + latency
    /\ \E resp \in Answers("trending_searches",
                         {Raise} \cup {Returns(df) : df \in TrendingTables}) :
          IF clock + latency - calls[1].at > Deadline
          THEN /\ calls' = Append(calls, Call("trending_searches", << >>, "raise"))
               /\ analysis_result' =
                     [analysis_result EXCEPT !.rising_searches =
                         [error |-> "ProviderTimeout"]]
          ELSE IF resp.raise
          THEN /\ calls' = Append(calls, Call("trending_searches", << >>, "raise"))
               /\ UNCHANGED analysis_result
          ELSE IF Len(resp.val.rows) = 0
          THEN /\ calls' = Append(calls, Call("trending_searches", << >>, "empty"))
               /\ UNCHANGED analysis_result
          ELSE /\ calls' = Append(calls, Call("trending_searches", << >>, "data"))
               /\ analysis_result' =
                     [analysis_result EXCEPT !.rising_searches =
                         Put(@, "trending_now", head(resp.val.rows, TrendingLimit))]
    /\ Goto("Synthesizing")
    /\ UNCHANGED << kw_list, kw_i, rel_step, result >>
    /\ UNCHANGED_args /\ UNCHANGED_fn

\* a mutant of FetchTrending: without the try of line 184, so that the
\* exception reaches the handler of line 197
FetchTrending_NoTry ==
    /\ pc = "FetchingTrendingNow"
    /\ clock' = clock + latency
    /\ \E resp \in Answers("trending_searches",
                         {Raise} \cup {Returns(df) : df \in TrendingTables}) :
          IF resp.raise
          THEN /\ calls' = Append(calls, Call("trending_searches", << >>, "raise"))
               /\ UNCHANGED analysis_result
               /\ Abort(kw_list)
          ELSE /\ IF Len(resp.val.rows) = 0
                  THEN /\ calls' = Append(calls, Call("trending_searches", << >>, "empty"))
                       /\ UNCHANGED analysis_result
                  ELSE /\ calls' = Append(calls, Call("trending_searches", << >>, "data"))
                       /\ analysis_result' =
                             [analysis_result EXCEPT !.rising_searches =
                                 Put(@, "trending_now", head(resp.val.rows, TrendingLimit))]
               /\ Goto("Synthesizing")
               /\ UNCHANGED result
    /\ UNCHANGED << kw_list, kw_i, rel_step >>
    /\ UNCHANGED_args /\ UNCHANGED_fn

\* lines 182-190
FetchTrending ==
    /\ pc = "FetchingTrendingNow"
    /\ clock' = clock + latency
    /\ \E resp \in Answers("trending_searches",
                         {Raise} \cup {Returns(df) : df \in TrendingTables}) :
          IF resp.raise
          THEN /\ calls' = Append(calls, Call("trending_searches", << >>, "raise"))
               /\ UNCHANGED analysis_result
          ELSE IF Len(resp.val.rows) = 0
          THEN /\ calls' = Append(calls, Call("trending_searches", << >>, "empty"))
               /\ UNCHANGED analysis_result
          ELSE /\ calls' = Append(calls, Call("trending_searches", << >>, "data"))
               /\ analysis_result' =
                     [analysis_result EXCEPT !.rising_searches =
                         Put(@, "trending_now", head(resp.val.rows, TrendingLimit))]
    /\ Goto("Synthesizing")
    /\ UNCHANGED << kw_list, kw_i, rel_step, result >>
    /\ UNCHANGED_args /\ UNCHANGED_fn

\* json.dumps(analysis_result, ...): the document with the dict's keys and
\* values
Dumps(ar) == [kind |-> "report", body |-> ar]

\* a mutant of Synthesize: the summary is stamped with the time it was made
Synthesize_Stamped ==
    /\ pc = "Synthesizing"
    /\ analysis_result' =
          [analysis_result EXCEPT !.summary =
              Put(_generate_summary(analysis_result, kw_list), "generated_at", clock)]
    /\ result' = Dumps(analysis_result')
    /\ Goto("Done")
    /\ UNCHANGED << kw_list, kw_i, rel_step, calls, clock >>
    /\ UNCHANGED_args /\ UNCHANGED_fn

\* lines 192-195
Synthesize ==
    /\ pc = "Synthesizing"
    /\ analysis_result' =
          [analysis_result EXCEPT !.summary = _generate_summary(analysis_result, kw_list)]
    /\ result' = Dumps(analysis_result')
    /\ Goto("Done")
    /\ UNCHANGED << kw_list, kw_i, rel_step, calls, clock >>
    /\ UNCHANGED_args /\ UNCHANGED_fn

\* the argument keywords: a str, or a list of at most MaxKw keywords
KeywordArgs ==
    {[kind |-> "str", str |-> k, list |-> << >>] : k \in Keywords}
    \cup {[kind |-> "list", str |-> "", list |-> l] : l \in SeqsUpTo(Keywords, MaxKw)}

NoResult == [kind |-> "none"]

NoTrends == [k \in {} |-> None]

\* the variables of the function checks while no function is being checked
NoFunctionCheck ==
    /\ interest_df = EmptyDict
    /\ trends = NoTrends
    /\ peaks = EmptyDict
    /\ regional_df = [index |-> << >>, cols |-> EmptyDict]
    /\ top_regions = EmptyDict
    /\ related_data = None
    /\ processed = << >>

\* the variables of a run while a function is being checked
RunAtRest ==
    /\ keywords = [kind |-> "str", str |-> "ai", list |-> << >>]
    /\ include_related = TRUE
    /\ include_regional = TRUE
    /\ include_rising = TRUE
    /\ kw_list = << >>
    /\ analysis_result = EmptyDict
    /\ kw_i = 1
    /\ rel_step = "topics"
    /\ calls = << >>
    /\ visited = << >>
    /\ result = NoResult
    /\ clock = 0
    /\ latency = 0
    /\ mock = NoMock
    /\ first = NoResult

UNCHANGED_run ==
    UNCHANGED << keywords, include_related, include_regional, include_rising,
                 kw_list, analysis_result, kw_i, rel_step, calls, visited,
                 result, clock, latency, mock, first >>

\* a call of _run about to start
Init ==
    /\ pc = "Init"
    /\ clock = 0
    /\ latency \in Latencies
    /\ mock = NoMock
    /\ first = NoResult
    /\ keywords \in KeywordArgs
    /\ include_related \in BOOLEAN
    /\ include_regional \in BOOLEAN
    /\ include_rising \in BOOLEAN
    /\ kw_list = << >>
    /\ analysis_result = EmptyDict
    /\ kw_i = 1
    /\ rel_step = "topics"
    /\ calls = << >>
    /\ visited = << "Init" >>
    /\ result = NoResult
    /\ NoFunctionCheck

Next ==
    \/ CreateClient
    \/ BuildPayload
    \/ FetchInterestOverTime
    \/ FetchRelatedTopics
    \/ FetchRelatedQueries
    \/ FetchRegional
    \/ FetchTrending
    \/ Synthesize

Spec == Init /\ [][Next]_vars

\* every call the provider client is given eventually returns or raises
FairSpec == Spec /\ WF_vars(Next)

----------------------------------------------------------------------------
(* The Init stage of _run on long keyword lists *)

InitKw ==
    /\ pc = "BuildPayload"
    /\ clock = 0
    /\ latency = 0
    /\ mock = NoMock
    /\ first = NoResult
    /\ keywords \in {[kind |-> "list", str |-> "", list |-> l] :
                        l \in SeqsUpTo(InputKeywords, MaxInputLen)}
    /\ include_related = TRUE
    /\ include_regional = TRUE
    /\ include_rising = TRUE
    /\ kw_list = << >>
    /\ analysis_result = EmptyDict
    /\ kw_i = 1
    /\ rel_step = "topics"
    /\ calls = << Call("TrendReq", << >>, "ok") >>
    /\ visited = << "Init" >>
    /\ result = NoResult
    /\ NoFunctionCheck

NextKw == BuildPayload

SpecKw == InitKw /\ [][NextKw]_vars

----------------------------------------------------------------------------
(* _analyze_trend_direction on generated series *)

\* a series of n points: a, b at its start, c, d at its end, m in between
ShapedSeries(n, a, b, c, d, m) ==
    [i \in 1..n |->
        IF i = 1 THEN a
        ELSE IF i = n THEN d
        ELSE IF i = 2 THEN b
        ELSE IF i = n - 1 THEN c
        ELSE m]

\* a series of LongPoints points: lead at its start, trail at its end, 0 in
\* between
LongSeries(lead, trail) ==
    [i \in 1..LongPoints |->
        IF i <= 3 THEN lead[i]
        ELSE IF i > LongPoints - 3 THEN trail[i - (LongPoints - 3)]
        ELSE 0]

TrendInputs ==
    {[column \in {"ai"} |-> ShapedSeries(n, a, b, c, d, m)] :
        n \in 1..MaxPoints, a \in PointValues, b \in PointValues,
        c \in PointValues, d \in PointValues, m \in FillValues}
    \cup {[column \in {"ai"} |-> LongSeries(lead, trail)] :
            lead \in LongLeads, trail \in LongTrails}

InitTrend ==
    /\ pc = "TrendInput"
    /\ interest_df \in TrendInputs
    /\ trends = NoTrends
    /\ peaks = EmptyDict
    /\ regional_df = [index |-> << >>, cols |-> EmptyDict]
    /\ top_regions = EmptyDict
    /\ related_data = None
    /\ processed = << >>
    /\ keywords = [kind |-> "str", str |-> "ai", list |-> << >>]
    /\ include_related = TRUE
    /\ include_regional = TRUE
    /\ include_rising = TRUE
    /\ kw_list = << >>
    /\ analysis_result = EmptyDict
    /\ kw_i = 1
    /\ rel_step = "topics"
    /\ calls = << >>
    /\ visited = << >>
    /\ result = NoResult
    /\ clock = 0
    /\ latency = 0
    /\ mock = NoMock
    /\ first = NoResult

\* line 135: the call of _analyze_trend_direction
AnalyzeTrend ==
    /\ pc = "TrendInput"
    /\ trends' = _analyze_trend_direction(interest_df)
    /\ pc' = "TrendDone"
    /\ UNCHANGED << keywords, include_related, include_regional, include_rising,
                    kw_list, analysis_result, kw_i, rel_step, calls, visited,
                    result, interest_df, peaks, regional_df, top_regions,
                    related_data, processed, clock, latency, mock, first >>

NextTrend == AnalyzeTrend

SpecTrend == InitTrend /\ [][NextTrend]_vars

----------------------------------------------------------------------------
(* Properties of _analyze_trend_direction, checked under SpecTrend *)

RECURSIVE SumRange(_, _, _)
SumRange(s, lo, hi) == IF lo > hi THEN 0 ELSE s[lo] + SumRange(s, lo + 1, hi)

TrendSeries == interest_df["ai"]

TrendN == Len(TrendSeries)

\* max(1, floor(N / 10))
TrendWindow == IF TrendN >= 10 THEN TrendN \div 10 ELSE 1

\* the sums of the first and of the last TrendWindow points
LeadSum == SumRange(TrendSeries, 1, TrendWindow)

TrailSum == SumRange(TrendSeries, TrendN - TrendWindow + 1, TrendN)

TrendAnalyzed == pc = "TrendDone"

\* the fraction x is the number a / b
FracIs(x, a, b) == x.d > 0 /\ x.n * b = a * x.d

\* start_average and end_average are the means of the two windows, and the
\* direction is the one the thresholds 1.1 and 0.9 give
WindowsAndThresholds ==
    LET t == trends["ai"]
    IN  /\ FracIs(t.start_average, LeadSum, TrendWindow)
        /\ FracIs(t.end_average, TrailSum, TrendWindow)
        /\ t.direction \in {"Rising", "Declining", "Stable"}
        /\ t.direction = "Rising" <=> 10 * TrailSum > 11 * LeadSum
        /\ t.direction = "Declining" <=> 10 * TrailSum < 9 * LeadSum
        /\ t.direction = "Stable" <=>
              ~(10 * TrailSum > 11 * LeadSum) /\ ~(10 * TrailSum < 9 * LeadSum)

C10_ChangePercentage ==
    TrendAnalyzed =>
        LET t == trends["ai"]
        IN  /\ LeadSum # 0 => FracIs(t.change_percentage,
                                     100 * (TrailSum - LeadSum), LeadSum)
            /\ LeadSum = 0 => t.change_percentage = Float64(FracOfInt(0), 0)
            /\ TrendSeries = << 10, 60 >> =>
                  /\ t.start_average = FracOfInt(10)
                  /\ t.end_average = FracOfInt(60)
                  /\ t.direction = "Rising"
                  /\ t.change_percentage = Float64(FracOfInt(500), 0)

\* the series 10, 60 analysed
C10_Witness ==
    /\ TrendAnalyzed
    /\ TrendSeries = << 10, 60 >>
    /\ trends["ai"].change_percentage = Float64(FracOfInt(500), 0)

----------------------------------------------------------------------------
(* Properties of a run of _run, read from the history of its calls *)

FetchOps ==
    {"interest_over_time", "related_topics", "related_queries",
     "interest_by_region", "trending_searches"}

InitOps == {"TrendReq", "build_payload"}

\* some call of op (with the arguments args) ended as res
Ended(op, args, res) ==
    \E i \in 1..Len(calls) :
        calls[i].op = op /\ calls[i].args = args /\ calls[i].res = res

FetchRaised ==
    \E i \in 1..Len(calls) : calls[i].op \in FetchOps /\ calls[i].res = "raise"

PassedInit == Ended("build_payload", kw_list, "ok")

\* the Report the run returned
Report == result.body

ReturnedReport == pc = "Done" /\ result.kind = "report"

\* the section of the Report a call fills
SectionOf(op) ==
    CASE op = "interest_over_time" -> "interest_over_time"
      [] op = "related_topics" -> "related_topics"
      [] op = "related_queries" -> "related_queries"
      [] op = "interest_by_region" -> "regional_interest"
      [] op = "trending_searches" -> "rising_searches"

\* the section of call c (for a related call: the entry of its keyword)
\* holds data
Populated(c) ==
    IF c.op \in {"related_topics", "related_queries"}
    THEN /\ c.args[1] \in DOMAIN Report[SectionOf(c.op)]
         /\ DOMAIN Report[SectionOf(c.op)][c.args[1]] = {"top", "rising"}
    ELSE /\ Truthy(Report[SectionOf(c.op)])
         /\ "error" \notin DOMAIN Report[SectionOf(c.op)]

\* the section of call c (or the entry of its keyword) carries an error entry
HasErrorMarker(c) ==
    \/ "error" \in DOMAIN Report[SectionOf(c.op)]
    \/ /\ c.op \in {"related_topics", "related_queries"}
       /\ c.args[1] \in DOMAIN Report[SectionOf(c.op)]
       /\ "error" \in DOMAIN Report[SectionOf(c.op)][c.args[1]]

\* every section whose call returned data is populated in the Report
SucceededSectionsPopulated ==
    \A i \in 1..Len(calls) :
        calls[i].op \in FetchOps /\ calls[i].res = "data" => Populated(calls[i])

\* a requested section (or keyword entry) without data had its own call
\* raise or return nothing
OwnFailure(op, args) == Ended(op, args, "raise") \/ Ended(op, args, "empty")

DegradedOnlyByOwnFailure ==
    /\ ~Truthy(Report.interest_over_time) => OwnFailure("interest_over_time", << >>)
    /\ include_regional /\ ~Truthy(Report.regional_interest)
          => OwnFailure("interest_by_region", << >>)
    /\ include_rising /\ ~Truthy(Report.rising_searches)
          => OwnFailure("trending_searches", << >>)
    /\ \A k \in KwSet(kw_list) :
          include_related /\ k \notin DOMAIN Report.related_topics
             => OwnFailure("related_topics", << k >>)

\* C1 as stated: a run that passed Init completes with a Report whatever
\* subset of the sub-queries fails; a failing sub-query degrades only its own
\* section, and every section whose sub-query succeeded with data is
\* populated.
C1_AsStated ==
    /\ PassedInit => pc # "Aborted"
    /\ pc = "Done" =>
          /\ ReturnedReport
          /\ SucceededSectionsPopulated
          /\ DegradedOnlyByOwnFailure
          /\ \A k \in KwSet(kw_list) :
                include_related /\ k \notin DOMAIN Report.related_queries
                   => OwnFailure("related_queries", << k >>)

\* C1 amended: as C1, except that within one keyword's iteration a failing
\* related-topics fetch also degrades that keyword's related_queries entry:
\* the related-queries fetch of the iteration is not issued.
C1_PartialFailureIsolation ==
    /\ PassedInit => pc # "Aborted"
    /\ pc = "Done" =>
          /\ ReturnedReport
          /\ SucceededSectionsPopulated
          /\ DegradedOnlyByOwnFailure
          /\ \A k \in KwSet(kw_list) :
                include_related /\ k \notin DOMAIN Report.related_queries
                   => \/ OwnFailure("related_queries", << k >>)
                      \/ Ended("related_topics", << k >>, "raise")

\* a Report returned after the regional fetch raised and the time-series
\* fetch returned data
C1_Witness ==
    /\ ReturnedReport
    /\ Ended("interest_by_region", << >>, "raise")
    /\ Ended("related_queries", << "ai" >>, "raise")
    /\ Ended("interest_over_time", << >>, "data")
    /\ Truthy(Report.interest_over_time)

\* C2 as stated: every section whose fetch or analysis failed carries an
\* error entry in the returned Report instead of data, and no such error
\* unwinds past the orchestrator.
C2_AsStated ==
    /\ FetchRaised => pc # "Aborted"
    /\ pc = "Done" =>
          /\ ReturnedReport
          /\ \A i \in 1..Len(calls) :
                calls[i].op \in FetchOps /\ calls[i].res = "raise"
                   => HasErrorMarker(calls[i])

\* C2 amended: a section whose fetch failed carries no error entry in the
\* returned Report: it holds no data unless another call for the same section
\* (the same keyword's entry) returned data; no such error unwinds past the
\* orchestrator.
C2_FailedSectionLeftEmpty ==
    /\ FetchRaised => pc # "Aborted"
    /\ pc = "Done" =>
          /\ ReturnedReport
          /\ \A i \in 1..Len(calls) :
                calls[i].op \in FetchOps /\ calls[i].res = "raise"
                   => /\ ~HasErrorMarker(calls[i])
                      /\ ~Ended(calls[i].op, calls[i].args, "data")
                            => ~Populated(calls[i])
                      /\ calls[i].op \notin {"related_topics", "related_queries"}
                            => Report[SectionOf(calls[i].op)] = EmptyDict

\* a Report returned after the regional fetch raised
C2_Witness ==
    /\ ReturnedReport
    /\ Ended("interest_by_region", << >>, "raise")
    /\ Report.regional_interest = EmptyDict

\* two distinct keywords; the related-queries fetch raised for f and returned
\* data for o; the time-series and the regional fetch returned data
OneQueriesFetchFailed(f, o) ==
    /\ ReturnedReport
    /\ kw_list \in {<< f, o >>, << o, f >>}
    /\ f # o
    /\ Ended("related_queries", << f >>, "raise")
    /\ Ended("related_queries", << o >>, "data")
    /\ Ended("interest_over_time", << >>, "data")
    /\ Ended("interest_by_region", << >>, "data")

ValidSeriesAndRegions ==
    /\ DOMAIN Report.interest_over_time =
          {"data", "peak_periods", "trend_direction", "average_interest"}
    /\ DOMAIN Report.regional_interest = {"by_country", "top_regions"}

\* C3 as stated: with two keywords and the related-queries fetch failing for
\* exactly one, the Report has valid interest_over_time and regional_interest
\* sections, the failing keyword's related_queries entry carries an error
\* marker and the other keyword's entry is populated.
C3_AsStated ==
    \A f, o \in Keywords :
        OneQueriesFetchFailed(f, o) =>
            /\ ValidSeriesAndRegions
            /\ f \in DOMAIN Report.related_queries
            /\ "error" \in DOMAIN Report.related_queries[f]
            /\ o \in DOMAIN Report.related_queries
            /\ DOMAIN Report.related_queries[o] = {"top", "rising"}

\* C3 amended: as C3, but the failing keyword has no related_queries entry at
\* all (no error marker).
C3_FailingKeywordAbsent ==
    \A f, o \in Keywords :
        OneQueriesFetchFailed(f, o) =>
            /\ ValidSeriesAndRegions
            /\ f \notin DOMAIN Report.related_queries
            /\ o \in DOMAIN Report.related_queries
            /\ DOMAIN Report.related_queries[o] = {"top", "rising"}
            /\ Len(Report.related_queries[o].rising) > 0

\* the Report of keywords ai, ml whose related-queries fetch raised for ai
C3_Witness ==
    /\ OneQueriesFetchFailed("ai", "ml")
    /\ kw_list = << "ai", "ml" >>
    /\ DOMAIN Report.related_queries = {"ml"}

ZeroKeywords == Len(NormalizeKeywords(keywords)) = 0

\* C4 as stated: Aborted is reached only from the validation failure of an
\* invalid query in Init; a failure in any later stage, payload building
\* included, ends in Done with a Report holding partial content.  (A raising
\* construction of the client is counted to Init here and left aside.)
C4_AsStated ==
    /\ pc = "Aborted" =>
          /\ ZeroKeywords \/ Ended("TrendReq", << >>, "raise")
          /\ \A i \in 1..Len(calls) :
                calls[i].op # "TrendReq" => calls[i].res # "raise"
    /\ pc = "Done" => ReturnedReport /\ SucceededSectionsPopulated

\* C4 amended: Aborted is reached only from an exception raised before the
\* first section try block, that is by the construction of the client or by
\* build_payload, whatever the keywords; a failure in FetchingSeries,
\* FetchingRelated, FetchingRegional or FetchingTrendingNow ends in Done with
\* a Report holding partial content.
C4_AbortOnlyFromInit ==
    /\ pc = "Aborted" =>
          /\ result.kind = "error"
          /\ calls[Len(calls)].op \in InitOps
          /\ calls[Len(calls)].res = "raise"
          /\ \A i \in 1..Len(calls) : calls[i].op \in InitOps
    /\ FetchRaised => pc # "Aborted"
    /\ pc = "Done" => ReturnedReport /\ SucceededSectionsPopulated
    /\ calls # << >> /\ calls[Len(calls)].op \in InitOps
          /\ calls[Len(calls)].res = "raise" => pc = "Aborted"

\* a run with a keyword aborted by build_payload raising
C4_Witness ==
    /\ pc = "Aborted"
    /\ ~ZeroKeywords
    /\ Ended("build_payload", kw_list, "raise")

\* C5: a query with zero keywords is rejected in Init, before any call to the
\* provider: the run issues neither build_payload nor a fetch and ends
\* Aborted.
C5_AsStated ==
    ZeroKeywords =>
        /\ pc \in {"Init", "BuildPayload", "Aborted"}
        /\ \A i \in 1..Len(calls) : calls[i].op = "TrendReq"


----------------------------------------------------------------------------
(* Properties of the Init stage on long keyword lists, checked under SpecKw *)

InputList == keywords.list

\* the first n distinct elements of list, in the order of list
RECURSIVE FirstDistinct(_, _, _)
FirstDistinct(list, seen, n) ==
    IF list = << >> \/ n = 0 THEN << >>
    ELSE IF Head(list) \in seen THEN FirstDistinct(Tail(list), seen, n)
    ELSE << Head(list) >> \o FirstDistinct(Tail(list), seen \cup {Head(list)}, n - 1)

\* the keyword list build_payload was given
PayloadKeywords == calls[Len(calls)].args

PayloadBuilt == pc # "BuildPayload" /\ calls[Len(calls)].op = "build_payload"

\* the keyword list of the payload, and of query_info once it exists, is kws
KeywordsUsed(kws) ==
    /\ PayloadKeywords = kws
    /\ calls[Len(calls)].res = "ok" =>
          /\ pc = "FetchingSeries"
          /\ analysis_result.query_info.keywords = kws

\* C6 as stated: for a keyword list of more than 5 entries the payload and
\* query_info.keywords hold exactly the first 5 distinct keywords of the
\* input, in input order.
C6_AsStated ==
    PayloadBuilt /\ Len(InputList) > 5
        => KeywordsUsed(FirstDistinct(InputList, {}, 5))

\* C6 amended: for a keyword list of more than 5 entries the payload and
\* query_info.keywords hold exactly the first 5 entries of the input, in
\* input order; duplicates are kept, the excess is dropped without error.
C6_FirstFiveEntries ==
    PayloadBuilt /\ Len(InputList) > 5
        => KeywordsUsed([i \in 1..5 |-> InputList[i]])

\* a list of 6 entries with a duplicate among its first 5, cut to 5 entries
C6_Witness ==
    /\ pc = "FetchingSeries"
    /\ InputList = << "k1", "k1", "k2", "k3", "k4", "k5" >>
    /\ analysis_result.query_info.keywords = << "k1", "k1", "k2", "k3", "k4" >>

----------------------------------------------------------------------------
(* The stages of a run, checked under Spec and FairSpec *)

StageOrder ==
    << "Init", "FetchingSeries", "FetchingRelated", "FetchingRegional",
       "FetchingTrendingNow", "Synthesizing", "Done" >>

\* the place of a stage in StageOrder; Aborted comes after every stage
StageRank(stage) ==
    IF \E i \in 1..Len(StageOrder) : StageOrder[i] = stage
    THEN CHOOSE i \in 1..Len(StageOrder) : StageOrder[i] = stage
    ELSE Len(StageOrder) + 1

\* the stage the run is in
StageOf(p) == IF p = "BuildPayload" THEN "Init" ELSE p

\* the stage that issues op
StageOfOp(op) ==
    CASE op \in InitOps -> "Init"
      [] op = "interest_over_time" -> "FetchingSeries"
      [] op \in {"related_topics", "related_queries"} -> "FetchingRelated"
      [] op = "interest_by_region" -> "FetchingRegional"
      [] op = "trending_searches" -> "FetchingTrendingNow"

LastCall == calls[Len(calls)]

\* C7: the stages of a run happen in the order Init, FetchingSeries,
\* FetchingRelated, FetchingRegional, FetchingTrendingNow, Synthesizing, Done
\* (a stage switched off by its include flag, or a loop over no keyword, is
\* passed over); a stage whose call raised still advances; no stage is entered
\* twice; Done is terminal.
C7_StageOrder ==
    /\ visited[1] = "Init"
    /\ visited[Len(visited)] = StageOf(pc)
    /\ \A i \in 1..(Len(visited) - 1) :
          StageRank(visited[i]) < StageRank(visited[i + 1])
    /\ pc = "Done" /\ include_related /\ include_regional /\ include_rising
          /\ Len(kw_list) > 0 => visited = StageOrder
    /\ calls # << >> /\ LastCall.op \in FetchOps /\ LastCall.res = "raise" =>
          \/ StageRank(StageOf(pc)) > StageRank(StageOfOp(LastCall.op))
                /\ pc # "Aborted"
          \/ pc = "FetchingRelated" /\ LastCall.op = "related_topics"
                /\ kw_i <= Len(kw_list) /\ rel_step = "topics"
          \/ pc = "FetchingRelated" /\ LastCall.op = "related_queries"
                /\ kw_i <= Len(kw_list) /\ rel_step = "topics"
    /\ pc = "Done" => ~ENABLED Next

\* a run through all seven stages, two of which had a call raise
C7_Witness ==
    /\ pc = "Done"
    /\ visited = StageOrder
    /\ Ended("interest_over_time", << >>, "raise")
    /\ Ended("interest_by_region", << >>, "raise")

ReportKeys ==
    {"query_info", "interest_over_time", "related_topics", "related_queries",
     "regional_interest", "rising_searches", "summary"}

ErrorKeys == {"error", "keywords", "timestamp"}

\* _run has returned a Report with exactly the seven keys, or the error
\* object
ReturnedToCaller ==
    \/ /\ pc = "Done"
       /\ result.kind = "report"
       /\ DOMAIN result.body = ReportKeys
       /\ Truthy(result.body.summary)
    \/ /\ pc = "Aborted"
       /\ result.kind = "error"
       /\ DOMAIN result \ {"kind"} = ErrorKeys

\* C8: provided every provider call returns or raises, every call of _run
\* terminates and returns a Report with exactly the seven top-level keys or
\* the fatal error object; no exception escapes.
C8_AlwaysReturns == <>[]ReturnedToCaller

\* a Report returned after the first and the last provider call raised
C8_Witness ==
    /\ ReturnedToCaller
    /\ pc = "Done"
    /\ Ended("interest_over_time", << >>, "raise")
    /\ Ended("trending_searches", << >>, "raise")

----------------------------------------------------------------------------
(* _find_peak_periods on generated series *)

\* longest series handed to _find_peak_periods
MaxPeakLen == 5

\* values a point of those series takes
PeakValues == {0, 40, 100}

\* the tables: one column, at least one row (line 127 keeps empty tables away)
PeakInputs ==
    {[column \in {"ai"} |-> s] : s \in SeqsUpTo(PeakValues, MaxPeakLen) \ {<< >>}}

InitPeak ==
    /\ pc = "PeakInput"
    /\ interest_df \in PeakInputs
    /\ trends = NoTrends
    /\ peaks = EmptyDict
    /\ regional_df = [index |-> << >>, cols |-> EmptyDict]
    /\ top_regions = EmptyDict
    /\ related_data = None
    /\ processed = << >>
    /\ RunAtRest

\* line 134: the call of _find_peak_periods
FindPeaks ==
    /\ pc = "PeakInput"
    /\ peaks' = _find_peak_periods(interest_df)
    /\ pc' = "PeakDone"
    /\ UNCHANGED << interest_df, trends, regional_df, top_regions, related_data,
                    processed >>
    /\ UNCHANGED_run

NextPeak == FindPeaks

SpecPeak == InitPeak /\ [][NextPeak]_vars

PeakSeries == interest_df["ai"]

PeaksFound == pc = "PeakDone"

\* C11: for a keyword with a non-empty series the reported peak is a point
\* whose value is the maximum of the series, and of the points with that
\* value it is the earliest one.
C11_PeakIsEarliestMaximum ==
    PeaksFound =>
        LET peak == peaks["ai"]
        IN  /\ peak.peak_date \in 1..Len(PeakSeries)
            /\ FracIs(peak.peak_value, PeakSeries[peak.peak_date], 1)
            /\ \A i \in 1..Len(PeakSeries) :
                  PeakSeries[i] <= PeakSeries[peak.peak_date]
            /\ \A i \in 1..(peak.peak_date - 1) :
                  PeakSeries[i] < PeakSeries[peak.peak_date]

\* a series whose maximum is taken at two points, neither the first point, and
\* the earlier of the two is the reported peak
C11_Witness ==
    /\ PeaksFound
    /\ \E i, j \in 2..Len(PeakSeries) :
          /\ i < j
          /\ PeakSeries[i] = PeakSeries[j]
          /\ \A k \in 1..Len(PeakSeries) : PeakSeries[k] <= PeakSeries[i]
          /\ PeakSeries[1] < PeakSeries[i]
          /\ peaks["ai"].peak_date = i

----------------------------------------------------------------------------
(* The empty time series, checked under Spec *)

EmptySeriesReturned == Ended("interest_over_time", << >>, "empty")

InsightKinds ==
    {Report.summary.key_insights[i].kind :
        i \in 1..Len(Report.summary.key_insights)}

\* C12: when the interest-over-time series is empty, the interest_over_time
\* section of the Report has no average_interest and no peak_periods entry,
\* and the summary has has_time_series = false and no per-keyword insight
\* line.
C12_EmptySeriesAbsent ==
    ReturnedReport /\ EmptySeriesReturned =>
        /\ "average_interest" \notin DOMAIN Report.interest_over_time
        /\ "peak_periods" \notin DOMAIN Report.interest_over_time
        /\ Report.summary.data_quality.has_time_series = FALSE
        /\ "interest" \notin InsightKinds

\* a Report of two keywords whose time series came back empty and whose
\* regional table came back with data, so that the summary has an insight
C12_Witness ==
    /\ ReturnedReport
    /\ EmptySeriesReturned
    /\ Len(kw_list) = 2
    /\ Ended("interest_by_region", << >>, "data")
    /\ InsightKinds = {"regional"}

----------------------------------------------------------------------------
(* _get_top_regions on generated tables *)

\* most regions of a table handed to _get_top_regions
MaxRegions == 12

RegionNames ==
    << "r01", "r02", "r03", "r04", "r05", "r06", "r07", "r08", "r09", "r10",
       "r11", "r12", "r13", "r14" >>

\* values a region of those tables takes
RegionValues == {0, 30, 70}

RegionFillValues == {0, 50}

\* the tables: one column, at least one region (line 173 keeps empty tables
\* away)
RegionInputs ==
    {[index |-> SubSeq(RegionNames, 1, n),
      cols |-> [column \in {"ai"} |-> ShapedSeries(n, a, b, c, d, m)]] :
        n \in 1..MaxRegions, a \in RegionValues, b \in RegionValues,
        c \in RegionValues, d \in RegionValues, m \in RegionFillValues}

InitRegions ==
    /\ pc = "RegionsInput"
    /\ regional_df \in RegionInputs
    /\ interest_df = EmptyDict
    /\ trends = NoTrends
    /\ peaks = EmptyDict
    /\ top_regions = EmptyDict
    /\ related_data = None
    /\ processed = << >>
    /\ RunAtRest

\* line 176: the call of _get_top_regions
GetTopRegions ==
    /\ pc = "RegionsInput"
    /\ top_regions' = _get_top_regions(regional_df)
    /\ pc' = "RegionsDone"
    /\ UNCHANGED << interest_df, trends, peaks, regional_df, related_data,
                    processed >>
    /\ UNCHANGED_run

NextRegions == GetTopRegions

SpecRegions == InitRegions /\ [][NextRegions]_vars

RegionsRanked == pc = "RegionsDone"

RegionColumn == regional_df.cols["ai"]

RankedRegions == top_regions["ai"]

\* the rows of the table with a value > 0
PositiveRows == {k \in 1..Len(RegionColumn) : RegionColumn[k] > 0}

\* the rows of the table the output holds
RankedRows ==
    {k \in 1..Len(RegionColumn) :
        \E i \in 1..Len(RankedRegions) :
            RankedRegions[i].region = regional_df.index[k]}

\* C13: for each keyword _get_top_regions returns the entries with value > 0
\* ordered descending by value and truncated to 10: no entry has a value <= 0,
\* there are at most 10 entries, and no positive-valued region is left out
\* while there are fewer than 10 entries; the entries are the 10 highest of
\* the positive ones (filtering after truncation equals truncation after
\* filtering).
C13_TopRegions ==
    RegionsRanked =>
        /\ \A i \in 1..Len(RankedRegions) : RankedRegions[i].interest > 0
        /\ Len(RankedRegions) <= 10
        /\ \A i, j \in 1..Len(RankedRegions) :
              i < j => /\ RankedRegions[i].interest >= RankedRegions[j].interest
                       /\ RankedRegions[i].region # RankedRegions[j].region
        /\ \A i \in 1..Len(RankedRegions) :
              \E k \in PositiveRows :
                  /\ regional_df.index[k] = RankedRegions[i].region
                  /\ RegionColumn[k] = RankedRegions[i].interest
        /\ Len(RankedRegions) < 10 => PositiveRows \subseteq RankedRows
        /\ Cardinality(RankedRows) = Min(10, Cardinality(PositiveRows))
        /\ \A k \in PositiveRows \ RankedRows :
              \A i \in 1..Len(RankedRegions) :
                  RankedRegions[i].interest >= RegionColumn[k]

\* a table of 12 regions, 11 of them positive and one of these ahead of a
\* region without interest: 10 are returned, the lowest positive one left out
C13_Witness ==
    /\ RegionsRanked
    /\ Len(RegionColumn) = 12
    /\ Cardinality(PositiveRows) = 11
    /\ RegionColumn[1] = 0
    /\ RegionColumn[2] = 30
    /\ Len(RankedRegions) = 10
    /\ 2 \notin RankedRows

\* a table with fewer than 10 positive regions among more than 10
C13_WitnessFew ==
    /\ RegionsRanked
    /\ Len(RegionColumn) = 12
    /\ Cardinality(PositiveRows) = 3
    /\ Len(RankedRegions) = 3

----------------------------------------------------------------------------
(* _process_related_data on generated tables *)

\* most rows of a table handed to _process_related_data
MaxRows == 12

RowNames ==
    << "n01", "n02", "n03", "n04", "n05", "n06", "n07", "n08", "n09", "n10",
       "n11", "n12", "n13", "n14" >>

\* the scores a row of those tables takes
RowValues == {40, 100}

RowFillValues == {40, 70}

\* row i of a table of related topics / of related queries
TopicRow(i, value) ==
    [topic_title |-> RowNames[i], topic_type |-> "Topic", value |-> value]

QueryRow(i, value) == [query |-> RowNames[i], value |-> value]

\* the tables: None, or 0..MaxRows rows of topics or of queries
RelatedInputs ==
    {None}
    \cup {[rows |-> [i \in 1..n |->
                       IF topics
                       THEN TopicRow(i, ShapedSeries(n, a, b, c, d, m)[i])
                       ELSE QueryRow(i, ShapedSeries(n, a, b, c, d, m)[i])]] :
            n \in 0..MaxRows, a \in RowValues, b \in RowValues,
            c \in RowValues, d \in RowValues, m \in RowFillValues,
            topics \in BOOLEAN}

InitRelated ==
    /\ pc = "RelatedInput"
    /\ related_data \in RelatedInputs
    /\ interest_df = EmptyDict
    /\ trends = NoTrends
    /\ peaks = EmptyDict
    /\ regional_df = [index |-> << >>, cols |-> EmptyDict]
    /\ top_regions = EmptyDict
    /\ processed = << >>
    /\ RunAtRest

\* lines 150-151 and 160-161: a call of _process_related_data
ProcessRelated ==
    /\ pc = "RelatedInput"
    /\ processed' = _process_related_data(related_data)
    /\ pc' = "RelatedDone"
    /\ UNCHANGED << interest_df, trends, peaks, regional_df, top_regions,
                    related_data >>
    /\ UNCHANGED_run

NextRelated == ProcessRelated

SpecRelated == InitRelated /\ [][NextRelated]_vars

RelatedProcessed == pc = "RelatedDone"

\* the rows of the table
RawRows == IF related_data = None THEN << >> ELSE related_data.rows

RowName(row) == IF "query" \in DOMAIN row THEN row.query ELSE row.topic_title

EntryName(entry) == IF "query" \in DOMAIN entry THEN entry.query ELSE entry.title

\* the rows of the table the output holds
ProcessedRows ==
    {k \in 1..Len(RawRows) :
        \E i \in 1..Len(processed) : EntryName(processed[i]) = RowName(RawRows[k])}

\* the output is made of min(10, number of rows) distinct rows of the table,
\* each with its score
EntriesAreRows ==
    /\ Len(processed) = Min(10, Len(RawRows))
    /\ Cardinality(ProcessedRows) = Len(processed)
    /\ \A i \in 1..Len(processed) :
          \E k \in 1..Len(RawRows) :
              /\ EntryName(processed[i]) = RowName(RawRows[k])
              /\ processed[i].value = RawRows[k].value

\* the table is in descending order of score
RowsDescending ==
    \A i, j \in 1..Len(RawRows) : i < j => RawRows[i].value >= RawRows[j].value

\* the output holds the rows with the highest scores, of equal scores the
\* ones the provider gave first
HighestScores ==
    \A k \in ProcessedRows : \A l \in (1..Len(RawRows)) \ ProcessedRows :
        \/ RawRows[k].value > RawRows[l].value
        \/ RawRows[k].value = RawRows[l].value /\ k < l

\* C14 as stated: _process_related_data outputs the 10 entries with the
\* highest provider-assigned score (all entries when there are fewer than
\* 10), with entries of equal score kept in provider order.
C14_AsStated ==
    RelatedProcessed => EntriesAreRows /\ HighestScores

\* C14 amended: _process_related_data outputs the first 10 entries of the
\* result set in provider order (all entries when there are fewer than 10),
\* whatever their scores; these are the 10 highest scores when the provider
\* gives its rows in descending order of score.
C14_FirstTenInProviderOrder ==
    RelatedProcessed =>
        /\ EntriesAreRows
        /\ \A i \in 1..Len(processed) :
              /\ EntryName(processed[i]) = RowName(RawRows[i])
              /\ processed[i].value = RawRows[i].value
        /\ RowsDescending => HighestScores

\* a table of 12 rows whose highest score is in row 11: the output is rows
\* 1..10
C14_Witness ==
    /\ RelatedProcessed
    /\ Len(RawRows) = 12
    /\ RawRows[11].value = 100
    /\ \A k \in 1..10 : RawRows[k].value < 100
    /\ Len(processed) = 10
    /\ ProcessedRows = 1..10

----------------------------------------------------------------------------
(* Missing and empty related data, checked under Spec *)

RelatedOps == {"related_topics", "related_queries"}

\* call c is a related fetch that returned without a value for its keyword
\* (the keyword missing from the response, or mapped to None), and no other
\* fetch of the same kind gave that keyword a value
KeywordMissing(c) ==
    /\ c.op \in RelatedOps
    /\ c.res = "empty"
    /\ ~Ended(c.op, c.args, "data")

\* the entry of the keyword of call c
EntryOf(c) == Report[SectionOf(c.op)][c.args[1]]

HasEntry(c) == c.args[1] \in DOMAIN Report[SectionOf(c.op)]

\* C15 as stated: for every keyword whose related data is missing or empty
\* (keyword absent from the response, value None, or empty top / rising
\* tables) the Report holds an empty top list and an empty rising list for
\* that keyword, and no error is raised.
C15_AsStated ==
    /\ pc = "Aborted" => \A i \in 1..Len(calls) : calls[i].op \notin RelatedOps
    /\ ReturnedReport =>
          \A i \in 1..Len(calls) :
              KeywordMissing(calls[i]) =>
                  /\ HasEntry(calls[i])
                  /\ EntryOf(calls[i]).top = << >>
                  /\ EntryOf(calls[i]).rising = << >>

\* C15 amended: a keyword absent from the response, or mapped to None, gets
\* no entry in that section of the Report; a keyword with a value gets an
\* entry whose top / rising list is empty where the value's table is missing,
\* None or empty (the topics of the runs have no rising table, the queries an
\* empty top table); no error is raised in either case.
C15_MissingKeywordHasNoEntry ==
    /\ pc = "Aborted" => \A i \in 1..Len(calls) : calls[i].op \notin RelatedOps
    /\ ReturnedReport =>
          \A i \in 1..Len(calls) :
              /\ KeywordMissing(calls[i]) => ~HasEntry(calls[i])
              /\ calls[i].op \in RelatedOps /\ calls[i].res = "data" =>
                    /\ HasEntry(calls[i])
                    /\ DOMAIN EntryOf(calls[i]) = {"top", "rising"}
                    /\ calls[i].op = "related_topics" =>
                          /\ EntryOf(calls[i]).rising = << >>
                          /\ Len(EntryOf(calls[i]).top) = 2
                    /\ calls[i].op = "related_queries" =>
                          /\ EntryOf(calls[i]).top = << >>
                          /\ Len(EntryOf(calls[i]).rising) = 2

\* a Report for "ai" whose topics response held nothing for "ai" and whose
\* queries response held an empty top table
C15_Witness ==
    /\ ReturnedReport
    /\ kw_list = << "ai" >>
    /\ Ended("related_topics", << "ai" >>, "empty")
    /\ Ended("related_queries", << "ai" >>, "data")
    /\ "ai" \notin DOMAIN Report.related_topics
    /\ Report.related_queries["ai"].top = << >>

----------------------------------------------------------------------------
(* The spacing of the provider calls, checked under Spec *)

\* calls i and i + 1 are consecutive fetches of one run
ConsecutiveFetches(i) ==
    /\ i \in 1..(Len(calls) - 1)
    /\ calls[i].op \in FetchOps
    /\ calls[i + 1].op \in FetchOps

\* the time between the issue of call i and the issue of call i + 1
Interval(i) == calls[i + 1].at - calls[i].at

\* C17: within one run any two consecutive provider calls (interest over
\* time, related topics, related queries, regional interest, trending-now)
\* are at least 1 time unit apart, also where the earlier call raised or
\* returned no data.
C17_AsStated ==
    \A i \in 1..Len(calls) : ConsecutiveFetches(i) => Interval(i) >= 1

\* what the sleeps of lines 138, 154, 164, 178 give: a fetch that returned,
\* with or without data, is followed by the next one no sooner than 1 time
\* unit later
SleptAfterEveryReturn ==
    \A i \in 1..Len(calls) :
        ConsecutiveFetches(i) /\ calls[i].res # "raise" => Interval(i) >= 1

----------------------------------------------------------------------------
(* Two runs of _run with the same arguments on a mocked provider *)

\* the arguments keywords of the two runs
TwiceKeywordArgs ==
    { [kind |-> "str", str |-> "ai", list |-> << >>],
      [kind |-> "list", str |-> "", list |-> << "ml" >>],
      [kind |-> "list", str |-> "", list |-> << >>] }

\* what a mock answers to the related fetch of each keyword
RelatedMocks(kws, values) ==
    {f \in [kws -> UNION {RelatedResponses(k, values) : k \in kws}] :
        \A k \in kws : f[k] \in RelatedResponses(k, values)}

\* the mocked providers of a run on the keywords kws: one answer, a value or
\* a failure, to each fetch
Mocks(kws) ==
    {[kind |-> "mock",
      interest_over_time |-> series,
      related_topics |-> topics,
      related_queries |-> queries,
      interest_by_region |-> regions,
      trending_searches |-> trending] :
        series \in {Raise} \cup {Returns(df) : df \in InterestTables(kws)},
        topics \in RelatedMocks(kws, TopicValues),
        queries \in RelatedMocks(kws, QueryValues),
        regions \in {Raise} \cup {Returns(df) : df \in RegionalTables(kws)},
        trending \in {Raise} \cup {Returns(df) : df \in TrendingTables}}

InitTwice ==
    /\ pc = "Init"
    /\ clock = 0
    /\ latency = 0
    /\ keywords \in TwiceKeywordArgs
    /\ mock \in Mocks(KwSet(NormalizeKeywords(keywords)))
    /\ first = NoResult
    /\ include_related \in BOOLEAN
    /\ include_regional \in BOOLEAN
    /\ include_rising \in BOOLEAN
    /\ kw_list = << >>
    /\ analysis_result = EmptyDict
    /\ kw_i = 1
    /\ rel_step = "topics"
    /\ calls = << >>
    /\ visited = << "Init" >>
    /\ result = NoResult
    /\ NoFunctionCheck

\* the first run has returned; some time later _run is called again with the
\* same arguments
Rerun ==
    /\ pc \in {"Done", "Aborted"}
    /\ mock # NoMock
    /\ first = NoResult
    /\ first' = result
    /\ clock' = clock + 1
    /\ pc' = "Init"
    /\ kw_list' = << >>
    /\ analysis_result' = EmptyDict
    /\ kw_i' = 1
    /\ rel_step' = "topics"
    /\ calls' = << >>
    /\ visited' = << "Init" >>
    /\ result' = NoResult
    /\ UNCHANGED << keywords, include_related, include_regional, include_rising,
                    latency, mock >>
    /\ UNCHANGED_fn

NextTwice == Next \/ Rerun

SpecTwice == InitTwice /\ [][NextTwice]_vars

BothReturned == first # NoResult /\ pc \in {"Done", "Aborted"}

BothReports == BothReturned /\ first.kind = "report" /\ result.kind = "report"

\* a Report without its query_info.analysis_date
WithoutDate(report) == [report EXCEPT !.query_info.analysis_date = 0]

\* C16: two runs with the same arguments and the same mocked provider
\* responses, failures included, return Reports that are equal in every
\* field except query_info.analysis_date.
C16_Deterministic ==
    BothReports => WithoutDate(first.body) = WithoutDate(result.body)

\* two Reports of different dates from a mock whose time series has data,
\* whose regional fetch fails and whose related topics are missing
C16_Witness ==
    /\ BothReports
    /\ first.body.query_info.analysis_date # result.body.query_info.analysis_date
    /\ include_related /\ include_regional
    /\ kw_list = << "ai" >>
    /\ ~mock.interest_over_time.raise
    /\ Truthy(result.body.interest_over_time)
    /\ mock.interest_by_region.raise
    /\ mock.related_topics["ai"] = Returns(EmptyDict)
    /\ ~Truthy(result.body.related_topics)

----------------------------------------------------------------------------
(* The time a run takes, checked under Spec *)

\* when the run was started: it issues its first call at once
Started == calls[1].at

\* the time from the start of the run to now
Elapsed == clock - Started

\* the fetches that are followed by a sleep when they return
SleptOps ==
    {"interest_over_time", "related_topics", "related_queries",
     "interest_by_region"}

\* the number of calls among the first n that were followed by a sleep
RECURSIVE Sleeps(_)
Sleeps(n) ==
    IF n = 0 THEN 0
    ELSE Sleeps(n - 1)
         + (IF calls[n].op \in SleptOps /\ calls[n].res # "raise" THEN 1 ELSE 0)

\* call i was still in flight when Deadline had passed since the start
InFlightAtDeadline(i) ==
    /\ calls[i].at - Started <= Deadline
    /\ calls[i].at + latency - Started > Deadline

\* C19 as stated: every run carries a deadline; a provider call still in
\* flight when the deadline passes is abandoned and its section marked as
\* errored, so that the Report is returned no later than the deadline however
\* long a provider call blocks.
C19_AsStated ==
    ReturnedReport =>
        /\ Elapsed <= Deadline
        /\ \A i \in 1..Len(calls) :
              calls[i].op \in FetchOps /\ InFlightAtDeadline(i)
                  => HasErrorMarker(calls[i])

\* C19 amended: a run carries no deadline.  It waits for every provider call
\* it issued until the call has returned or raised, gives no call up and
\* marks no section as errored: the Report is returned when all calls have
\* ended, after the time of the calls and 1 time unit of sleep for each
\* fetch that returned (the trending fetch aside), which is later than
\* Deadline when the calls are slow.
C19_NoDeadline ==
    ReturnedReport =>
        /\ \A i \in 1..(Len(calls) - 1) : calls[i + 1].at >= calls[i].at + latency
        /\ clock >= calls[Len(calls)].at + latency
        /\ Elapsed = latency * Len(calls) + Sleeps(Len(calls))
        /\ \A i \in 1..Len(calls) :
              calls[i].op \in FetchOps => ~HasErrorMarker(calls[i])
        /\ latency = SlowCall => Elapsed > Deadline

\* a Report returned after Deadline by a run of slow calls, the five kinds of
\* fetch among them, one of which was in flight when Deadline passed
C19_Witness ==
    /\ ReturnedReport
    /\ latency = SlowCall
    /\ Elapsed > Deadline
    /\ \A op \in FetchOps : \E i \in 1..Len(calls) : calls[i].op = op
    /\ \E i \in 1..Len(calls) : calls[i].op \in FetchOps /\ InFlightAtDeadline(i)

----------------------------------------------------------------------------
(* The order and the number of the fetches, checked under Spec *)

IsRelatedCall(c) == c.op \in RelatedOps

IsTopicsCall(c) == c.op = "related_topics"

\* the related fetches of the run, in the order they were issued
RelatedCalls == SelectSeq(calls, IsRelatedCall)

TopicsCalls == SelectSeq(calls, IsTopicsCall)

\* the positions in calls of the calls of op
CallsOf(op) == {i \in 1..Len(calls) : calls[i].op = op}

\* the time-series and the regional fetch are issued at most once, the
\* former before and the latter after every related fetch
SeriesAndRegionalAroundLoop ==
    /\ Cardinality(CallsOf("interest_over_time")) <= 1
    /\ Cardinality(CallsOf("interest_by_region")) <= 1
    /\ \A i \in CallsOf("interest_over_time") :
          \A j \in 1..Len(calls) : IsRelatedCall(calls[j]) => i < j
    /\ \A i \in CallsOf("interest_by_region") :
          \A j \in 1..Len(calls) : IsRelatedCall(calls[j]) => j < i

\* C20 as stated: in every run with include_related enabled, for each keyword
\* of the clamped list the related-topics fetch and the related-queries
\* fetch are each issued exactly once, topics before queries, the keywords in
\* list order; the time-series and the regional fetch are each issued at
\* most once, the former before and the latter after the related-data loop.
C20_AsStated ==
    ReturnedReport /\ include_related =>
        /\ Len(RelatedCalls) = 2 * Len(kw_list)
        /\ \A j \in 1..Len(kw_list) :
              /\ RelatedCalls[2 * j - 1].op = "related_topics"
              /\ RelatedCalls[2 * j - 1].args = << kw_list[j] >>
              /\ RelatedCalls[2 * j].op = "related_queries"
              /\ RelatedCalls[2 * j].args = << kw_list[j] >>
        /\ SeriesAndRegionalAroundLoop

\* C20 amended: for each entry of the clamped list, in list order, the
\* related-topics fetch is issued exactly once, and the related-queries fetch
\* is issued once right after it if the topics fetch returned and not at all
\* if it raised; the rest as stated.
C20_QueriesOnlyAfterReturnedTopics ==
    ReturnedReport /\ include_related =>
        /\ Len(TopicsCalls) = Len(kw_list)
        /\ \A j \in 1..Len(kw_list) : TopicsCalls[j].args = << kw_list[j] >>
        /\ \A i \in 1..Len(calls) :
              /\ calls[i].op = "related_topics" /\ calls[i].res # "raise" =>
                    /\ i < Len(calls)
                    /\ calls[i + 1].op = "related_queries"
                    /\ calls[i + 1].args = calls[i].args
              /\ calls[i].op = "related_queries" =>
                    /\ calls[i - 1].op = "related_topics"
                    /\ calls[i - 1].res # "raise"
                    /\ calls[i - 1].args = calls[i].args
        /\ SeriesAndRegionalAroundLoop

\* a run on two keywords whose topics fetch raised for the first and returned
\* for the second, with the time-series and the regional fetch around them
C20_Witness ==
    /\ ReturnedReport /\ include_related
    /\ kw_list = << "ai", "ml" >>
    /\ Len(RelatedCalls) = 3
    /\ RelatedCalls[1].res = "raise"
    /\ RelatedCalls[3].op = "related_queries"
    /\ CallsOf("interest_over_time") # {}
    /\ CallsOf("interest_by_region") # {}

----------------------------------------------------------------------------
(* The summary of a Report, checked under Spec *)

Insights == Report.summary.key_insights

IsInterestLine(line) == line.kind = "interest"

\* the per-keyword lines of the summary, in their order
InterestLines == SelectSeq(Insights, IsInterestLine)

HasTimeSeries == Truthy(Report.interest_over_time)

\* the sum of the points of keyword kw in the data of the Report
RECURSIVE DataSum(_, _)
DataSum(kw, n) ==
    IF n = 0 THEN 0
    ELSE DataSum(kw, n - 1) + Report.interest_over_time.data[n][kw]

\* tenths is the mean of the points of kw to one decimal
IsMeanToOneDecimal(tenths, kw) ==
    LET n == Len(Report.interest_over_time.data)
    IN  2 * Abs(10 * DataSum(kw, n) - tenths * n) <= n

LowerCased(direction) ==
    CASE direction = "Rising" -> "rising"
      [] direction = "Declining" -> "declining"
      [] direction = "Stable" -> "stable"

\* C21: when time-series data is present the summary holds exactly one
\* insight line per analyzed keyword, keywords_analyzed lines in all, each
\* combining the keyword's average interest with its lower-cased trend
\* direction.
C21_OneInsightPerKeyword ==
    ReturnedReport /\ HasTimeSeries =>
        /\ Len(InterestLines) = Report.summary.data_quality.keywords_analyzed
        /\ Len(InterestLines) = Len(Report.query_info.keywords)
        /\ \A j \in 1..Len(InterestLines) :
              LET line == InterestLines[j]
                  kw == Report.query_info.keywords[j]
              IN  /\ line.keyword = kw
                  /\ IsMeanToOneDecimal(line.average, kw)
                  /\ line.trend =
                        LowerCased(Report.interest_over_time.trend_direction[kw].direction)

\* a Report on two keywords with a rising series of mean 35.0: two lines
C21_Witness ==
    /\ ReturnedReport /\ HasTimeSeries
    /\ kw_list = << "ai", "ml" >>
    /\ Len(InterestLines) = 2
    /\ InterestLines[2].keyword = "ml"
    /\ InterestLines[2].average = 350
    /\ InterestLines[2].trend = "rising"

Recommendations == Report.summary.recommendations

RegionalSucceeded == Ended("interest_by_region", << >>, "data")

\* the keywords of the per-keyword lines, in the order of the lines
LineKeywords == [j \in 1..Len(InterestLines) |-> InterestLines[j].keyword]

\* C22: in summary.key_insights the per-keyword time-series lines come first,
\* in keyword order, followed by at most one regional line, which is present
\* if and only if the regional analysis succeeded with data; the
\* recommendations come in the fixed order comparison suggestion, regional
\* suggestion.
C22_InsightOrder ==
    ReturnedReport =>
        /\ \E n \in 0..Len(Insights) :
              /\ \A i \in 1..n : Insights[i].kind = "interest"
              /\ \A i \in (n + 1)..Len(Insights) : Insights[i].kind = "regional"
              /\ Len(Insights) - n <= 1
        /\ LineKeywords = (IF HasTimeSeries THEN kw_list ELSE << >>)
        /\ "regional" \in InsightKinds <=> RegionalSucceeded
        /\ \A i \in 1..Len(Insights) :
              Insights[i].kind = "regional" =>
                  Insights[i].countries =
                      Cardinality(DOMAIN Report.regional_interest.by_country)
        /\ Recommendations \in
              { << >>,
                << CompareRecommendation >>,
                << RegionalRecommendation >>,
                << CompareRecommendation, RegionalRecommendation >> }

\* a Report on two keywords with a time series and regional data: two
\* per-keyword lines, then the regional line on its 3 countries
C22_Witness ==
    /\ ReturnedReport
    /\ kw_list = << "ai", "ml" >>
    /\ Len(Insights) = 3
    /\ LineKeywords = << "ai", "ml" >>
    /\ Insights[3].kind = "regional"
    /\ Insights[3].countries = 3

DataQuality == Report.summary.data_quality

\* some related fetch of the run returned a value for its keyword
RelatedSucceeded ==
    \E i \in 1..Len(calls) : calls[i].op \in RelatedOps /\ calls[i].res = "data"

\* C23: in every Report has_time_series is true iff the interest_over_time
\* section holds data, has_related_data is true iff related_topics or
\* related_queries holds an entry for at least one keyword, has_regional_data
\* is true iff regional_interest holds data, and keywords_analyzed is the
\* number of keywords in query_info.keywords.
C23_DataQuality ==
    ReturnedReport =>
        /\ DataQuality.has_time_series <=> "data" \in DOMAIN Report.interest_over_time
        /\ DataQuality.has_time_series <=> Ended("interest_over_time", << >>, "data")
        /\ DataQuality.has_related_data <=>
              \E kw \in KwSet(kw_list) :
                  \/ kw \in DOMAIN Report.related_topics
                  \/ kw \in DOMAIN Report.related_queries
        /\ DataQuality.has_related_data <=> RelatedSucceeded
        /\ DataQuality.has_regional_data <=>
              "by_country" \in DOMAIN Report.regional_interest
        /\ DataQuality.has_regional_data <=> RegionalSucceeded
        /\ DataQuality.keywords_analyzed = Len(Report.query_info.keywords)

\* a Report on two keywords without a time series, with regional data, and
\* with related queries for one keyword but no related topics at all
C23_Witness ==
    /\ ReturnedReport
    /\ DataQuality = [has_time_series |-> FALSE, has_related_data |-> TRUE,
                      has_regional_data |-> TRUE, keywords_analyzed |-> 2]
    /\ ~Truthy(Report.related_topics)
    /\ DOMAIN Report.related_queries = {"ml"}

Recommended(text) ==
    \E i \in 1..Len(Recommendations) : Recommendations[i] = text

OneKeyword == Len(Report.query_info.keywords) = 1

NoRegionalData == ~Truthy(Report.regional_interest)

\* C24: the comparison-keywords recommendation is present iff the query has
\* exactly one keyword, and the regional-analysis recommendation is present
\* iff the Report has no regional data, each whatever the other.
C24_RecommendationRules ==
    ReturnedReport =>
        /\ Recommended(CompareRecommendation) <=> OneKeyword
        /\ Recommended(RegionalRecommendation) <=> NoRegionalData
        /\ Len(Recommendations) =
              (IF OneKeyword THEN 1 ELSE 0) + (IF NoRegionalData THEN 1 ELSE 0)

\* the four combinations of the two rules
C24_Witness ==
    /\ ReturnedReport
    /\ OneKeyword /\ NoRegionalData
    /\ Recommendations = << CompareRecommendation, RegionalRecommendation >>

C24_OnlyComparison ==
    /\ ReturnedReport
    /\ OneKeyword /\ ~NoRegionalData
    /\ Recommendations = << CompareRecommendation >>

C24_OnlyRegional ==
    /\ ReturnedReport
    /\ ~OneKeyword /\ NoRegionalData
    /\ Recommendations = << RegionalRecommendation >>

C24_Neither ==
    /\ ReturnedReport
    /\ ~OneKeyword /\ ~NoRegionalData
    /\ Recommendations = << >>

----------------------------------------------------------------------------
(* The trending-now fetch, checked under Spec *)

\* the sections of the Report the trending-now fetch has no part in
SectionsBesideRising ==
    {"query_info", "interest_over_time", "related_topics", "related_queries",
     "regional_interest", "summary"}

\* what the provider may list, cut to its first 10 entries
FirstTenTrending ==
    {SubSeq(df.rows, 1, IF Len(df.rows) < 10 THEN Len(df.rows) ELSE 10) :
        df \in {t \in TrendingTables : Len(t.rows) > 0}}

\* the trending-now fetch of the run, its last call
TrendingCall == calls[Len(calls)]

\* the step of the trending-now fetch leaves every other section as it was
\* and goes on to the synthesis
TrendingStep ==
    pc = "FetchingTrendingNow" =>
        /\ pc' = "Synthesizing"
        /\ \A section \in SectionsBesideRising :
              analysis_result'[section] = analysis_result[section]

\* C25: the trending-now fetch is best-effort: when it fails (or the region
\* is not supported, which fails the call) the Report is still produced, with
\* an empty rising_searches and no other section changed; when it succeeds,
\* trending_now holds at most the first 10 provider entries in provider
\* order.
C25_TrendingBestEffort ==
    /\ [](pc \in {"Done", "Aborted"} /\ PassedInit /\ include_rising =>
            /\ ReturnedReport
            /\ TrendingCall.op = "trending_searches"
            /\ TrendingCall.res \in {"raise", "empty"} =>
                  Report.rising_searches = EmptyDict
            /\ TrendingCall.res = "data" =>
                  /\ DOMAIN Report.rising_searches = {"trending_now"}
                  /\ Report.rising_searches.trending_now \in FirstTenTrending
                  /\ Len(Report.rising_searches.trending_now) <= 10)
    /\ [][TrendingStep]_vars

\* a Report whose trending-now fetch raised and whose other fetches returned
\* data
C25_Witness ==
    /\ ReturnedReport
    /\ TrendingCall.op = "trending_searches" /\ TrendingCall.res = "raise"
    /\ Report.rising_searches = EmptyDict
    /\ HasTimeSeries /\ ~NoRegionalData
    /\ Truthy(Report.related_topics) /\ Truthy(Report.related_queries)

----------------------------------------------------------------------------
(* A failing related-topics fetch, checked under Spec *)

\* call i is a related-topics fetch that raised
TopicsRaised(i) == calls[i].op = "related_topics" /\ calls[i].res = "raise"

\* the step in which a related-topics fetch raises: nothing of the Report
\* under construction changes, and the loop goes on to the next keyword, or
\* ends after the last one
TopicsRaiseStep ==
    /\ pc = "FetchingRelated"
    /\ Len(calls') = Len(calls) + 1
    /\ TopicsRaised(Len(calls))'
    => /\ analysis_result' = analysis_result
       /\ kw_i' = kw_i + 1
       /\ rel_step' = "topics"
       /\ pc' = (IF kw_i < Len(kw_list) THEN "FetchingRelated" ELSE AfterRelated)

\* the queries fetch of the iteration of call i was not issued, and every
\* entry of the list had its topics fetch
QueriesSkippedLoopContinues ==
    /\ \A i \in 1..Len(calls) :
          TopicsRaised(i) /\ i < Len(calls) => calls[i + 1].op # "related_queries"
    /\ Len(TopicsCalls) = Len(kw_list)

\* C26 as stated: a failure of the related-topics fetch for keyword k skips
\* the related-queries fetch for k in that run, so that there is no
\* related_queries entry for k, while the entries written for earlier
\* keywords are left unchanged and the loop continues with the next keyword.
C26_AsStated ==
    /\ [](ReturnedReport /\ include_related =>
            /\ QueriesSkippedLoopContinues
            /\ \A i \in 1..Len(calls) :
                  TopicsRaised(i) =>
                      calls[i].args[1] \notin DOMAIN Report.related_queries)
    /\ [][TopicsRaiseStep]_vars

\* C26 amended: as C26, except that k has no related_queries entry from that
\* iteration only: it has one if the list names k once more and the queries
\* fetch of that other iteration returned a value for k.
C26_TopicsFailureSkipsQueries ==
    /\ [](ReturnedReport /\ include_related =>
            /\ QueriesSkippedLoopContinues
            /\ \A i \in 1..Len(calls) :
                  TopicsRaised(i) =>
                      /\ ~Ended("related_queries", calls[i].args, "data")
                            => calls[i].args[1] \notin DOMAIN Report.related_queries
                      /\ Ended("related_queries", calls[i].args, "data")
                            => calls[i].args[1] \in DOMAIN Report.related_queries)
    /\ [][TopicsRaiseStep]_vars

\* a Report on "ai", "ml": both fetches for "ai" returned values, the topics
\* fetch for "ml" raised; the entries of "ai" are there, "ml" has none
C26_Witness ==
    /\ ReturnedReport
    /\ kw_list = << "ai", "ml" >>
    /\ Ended("related_topics", << "ml" >>, "raise")
    /\ Len(RelatedCalls) = 3
    /\ DOMAIN Report.related_topics = {"ai"}
    /\ DOMAIN Report.related_queries = {"ai"}

----------------------------------------------------------------------------
(* direction against change_percentage, checked under SpecTrend *)

\* the float64 x is greater, or less, than the fraction q
FloatAbove(x, q) == FracLess(q, x) \/ (FracIs(x, q.n, q.d) /\ x.off > 0)

FloatBelow(x, q) == FracLess(x, q) \/ (FracIs(x, q.n, q.d) /\ x.off < 0)

\* C27 as stated: when start_avg > 0 the direction is Rising iff
\* change_percentage > 10, Declining iff change_percentage < -10, Stable iff
\* change_percentage is in [-10, 10]; when start_avg = 0 and end_avg > 0 the
\* direction is Rising while change_percentage is 0; a series of one point is
\* Stable with change_percentage 0.
C27_AsStated ==
    TrendAnalyzed =>
        LET t == trends["ai"]
            change == t.change_percentage
        IN  /\ LeadSum > 0 =>
                  /\ t.direction = "Rising" <=> FloatAbove(change, FracOfInt(10))
                  /\ t.direction = "Declining" <=> FloatBelow(change, FracOfInt(-10))
                  /\ t.direction = "Stable" <=>
                        ~FloatAbove(change, FracOfInt(10)) /\ ~FloatBelow(change, FracOfInt(-10))
            /\ LeadSum = 0 /\ TrailSum > 0 =>
                  /\ t.direction = "Rising"
                  /\ change = Float64(FracOfInt(0), 0)
            /\ TrendN = 1 =>
                  /\ t.direction = "Stable"
                  /\ change = Float64(FracOfInt(0), 0)

----------------------------------------------------------------------------
(* A fetch that fails against a fetch that returns no data: two runs of    *)
(* _run with the same arguments, the second on a provider that returns a   *)
(* table without rows where the first one's raised, and raises where the   *)
(* first one's returned a table without rows                               *)

\* the keywords of the payload of the two runs
TurnedKeywords == KwSet(NormalizeKeywords(keywords))

\* interest_over_time() and interest_by_region() returning a table without
\* rows
NoRows(op) ==
    IF op = "interest_over_time"
    THEN Returns([column \in TurnedKeywords |-> << >>])
    ELSE Returns([index |-> << >>, cols |-> [column \in TurnedKeywords |-> << >>]])

\* the answer of the second provider to the fetch op
Turned(op) ==
    IF mock[op].raise THEN NoRows(op)
    ELSE IF mock[op] = NoRows(op) THEN Raise
    ELSE mock[op]

\* the first run has returned; _run is called again with the same arguments
\* on the second provider
RerunTurned ==
    /\ pc \in {"Done", "Aborted"}
    /\ mock # NoMock
    /\ first = NoResult
    /\ first' = result
    /\ mock' = [mock EXCEPT !.interest_over_time = Turned("interest_over_time"),
                            !.interest_by_region = Turned("interest_by_region")]
    /\ clock' = clock + 1
    /\ pc' = "Init"
    /\ kw_list' = << >>
    /\ analysis_result' = EmptyDict
    /\ kw_i' = 1
    /\ rel_step' = "topics"
    /\ calls' = << >>
    /\ visited' = << "Init" >>
    /\ result' = NoResult
    /\ UNCHANGED << keywords, include_related, include_regional, include_rising,
                    latency >>
    /\ UNCHANGED_fn

NextTurned == Next \/ RerunTurned

SpecTurned == InitTwice /\ [][NextTurned]_vars

\* the fetch op of the second run raised or returned no data, so that of the
\* first run returned no data or raised
FailedOrEmpty(op) == mock[op].raise \/ mock[op] = NoRows(op)

\* C28: a section whose call returned no data and a section whose call raised
\* give the same Report: the section stays an empty object and its
\* data_quality flag is false in both, and nothing else of the Report tells
\* the two runs apart.
C28_EmptyLikeFailed ==
    BothReports =>
        /\ WithoutDate(first.body) = WithoutDate(result.body)
        /\ FailedOrEmpty("interest_over_time") =>
              /\ first.body.interest_over_time = EmptyDict
              /\ result.body.interest_over_time = EmptyDict
              /\ ~first.body.summary.data_quality.has_time_series
              /\ ~result.body.summary.data_quality.has_time_series
        /\ include_regional /\ FailedOrEmpty("interest_by_region") =>
              /\ first.body.regional_interest = EmptyDict
              /\ result.body.regional_interest = EmptyDict
              /\ ~first.body.summary.data_quality.has_regional_data
              /\ ~result.body.summary.data_quality.has_regional_data

\* two equal Reports on "ai": the time series returned no rows in the second
\* run, so it raised in the first, and the regional fetch raised in the
\* second run, so it returned no rows in the first
C28_Witness ==
    /\ BothReports
    /\ kw_list = << "ai" >>
    /\ include_regional
    /\ Ended("interest_over_time", << >>, "empty")
    /\ Ended("interest_by_region", << >>, "raise")
    /\ mock.interest_over_time = NoRows("interest_over_time")
    /\ mock.interest_by_region = Raise
    /\ WithoutDate(first.body) = WithoutDate(result.body)

----------------------------------------------------------------------------
(* A run with one of its flags off against the same run with the flag on:  *)
(* two runs of _run on the same mocked provider, the first with a flag     *)
(* that is false, the second with that flag true                           *)

Flags == {"include_related", "include_regional", "include_rising"}

FlagValue(flag) ==
    CASE flag = "include_related" -> include_related
      [] flag = "include_regional" -> include_regional
      [] flag = "include_rising" -> include_rising

\* the fetches a flag stands before, and the sections they fill
FlagOps(flag) ==
    CASE flag = "include_related" -> {"related_topics", "related_queries"}
      [] flag = "include_regional" -> {"interest_by_region"}
      [] flag = "include_rising" -> {"trending_searches"}

FlagSections(flag) ==
    CASE flag = "include_related" -> {"related_topics", "related_queries"}
      [] flag = "include_regional" -> {"regional_interest"}
      [] flag = "include_rising" -> {"rising_searches"}

\* the first run has returned; _run is called again on the same provider,
\* with the same arguments but for one flag, which was false and now is true
RerunEnabled ==
    /\ pc \in {"Done", "Aborted"}
    /\ mock # NoMock
    /\ first = NoResult
    /\ \E flag \in Flags :
          /\ ~FlagValue(flag)
          /\ first' = IF result.kind = "report"
                      THEN [kind |-> result.kind, body |-> result.body, flag |-> flag]
                      ELSE result
          /\ include_related' = (include_related \/ flag = "include_related")
          /\ include_regional' = (include_regional \/ flag = "include_regional")
          /\ include_rising' = (include_rising \/ flag = "include_rising")
    /\ clock' = clock + 1
    /\ pc' = "Init"
    /\ kw_list' = << >>
    /\ analysis_result' = EmptyDict
    /\ kw_i' = 1
    /\ rel_step' = "topics"
    /\ calls' = << >>
    /\ visited' = << "Init" >>
    /\ result' = NoResult
    /\ UNCHANGED << keywords, latency, mock >>
    /\ UNCHANGED_fn

NextEnabled == Next \/ RerunEnabled

SpecEnabled == InitTwice /\ [][NextEnabled]_vars

ReportSections ==
    {"query_info", "interest_over_time", "related_topics", "related_queries",
     "regional_interest", "rising_searches", "summary"}

\* a run that returned a Report issued no call a false flag stands before,
\* left the sections of a false flag empty, and recommends the regional
\* analysis when include_regional is false
FalseFlagsSkipped ==
    ReturnedReport =>
        /\ \A flag \in Flags :
              ~FlagValue(flag) =>
                  /\ \A i \in 1..Len(calls) : calls[i].op \notin FlagOps(flag)
                  /\ \A section \in FlagSections(flag) : Report[section] = EmptyDict
        /\ ~include_regional => Recommended(RegionalRecommendation)

\* the sections of names hold the same in the Reports of the two runs
SameIn(names) ==
    \A section \in names :
        WithoutDate(first.body)[section] = WithoutDate(result.body)[section]

\* C29 as stated: with include_related, include_regional or include_rising
\* false no provider call of that kind is issued and the sections of the flag
\* stay empty, while all other sections are the same as in a run with the
\* flag enabled; with include_regional false the summary still has the
\* regional-analysis recommendation.
C29_AsStated ==
    /\ FalseFlagsSkipped
    /\ BothReports =>
          /\ \A section \in FlagSections(first.flag) :
                first.body[section] = EmptyDict
          /\ SameIn(ReportSections \ FlagSections(first.flag))

\* C29 amended: as C29, but the sections that are the same as in the run with
\* the flag enabled are all other sections except the summary; the summary
\* is the same too when the flag is include_rising.
C29_DisabledSectionsOnly ==
    /\ FalseFlagsSkipped
    /\ BothReports =>
          /\ \A section \in FlagSections(first.flag) :
                first.body[section] = EmptyDict
          /\ SameIn(ReportSections \ (FlagSections(first.flag) \cup {"summary"}))
          /\ first.flag = "include_rising" => SameIn({"summary"})

\* two Reports on "ai", the first with include_related false: its related
\* sections are empty and its summary has no related data, the second has
\* related topics and says so, and both hold the same time series
C29_Witness ==
    /\ BothReports
    /\ first.flag = "include_related"
    /\ kw_list = << "ai" >>
    /\ first.body.related_topics = EmptyDict
    /\ first.body.related_queries = EmptyDict
    /\ Truthy(result.body.related_topics)
    /\ Truthy(result.body.interest_over_time)
    /\ first.body.interest_over_time = result.body.interest_over_time
    /\ ~first.body.summary.data_quality.has_related_data
    /\ result.body.summary.data_quality.has_related_data

============================================================================
